---- MODULE Spec2Model ----
(***************************************************************************)
(* A model of OperaTicketMonitor: the notification-state machine           *)
(* (models.py, monitor.py, lambda_handler.py), the fetch client, the site  *)
(* adapters and the orchestrator (scrapers.py), and the seat checker       *)
(* (seat_checker.py).                                                      *)
(*                                                                         *)
(* Specifications:                                                         *)
(*   Spec        check cycles of the monitor (run_forever / check_once)    *)
(*               or of the Lambda entry point (check_tickets)              *)
(*   SpecState   MonitorState.should_notify / mark_notified on their own   *)
(*   SpecFetch   BaseScraper.fetch_page                                    *)
(*   SpecScrape  scrape_all_operas driving the adapters concurrently       *)
(*   SpecHelpers one call of a helper: a text helper or an adapter's parse *)
(*               and filter steps (scrapers.py), MonitorState.load         *)
(*   SpecSeats   one call of a SeatChecker method (seat_checker.py)        *)
(*   SpecBatch   one call of check_seats_for_performances                  *)
(*   SpecLoop    run_forever as a loop: counter, wait, shutdown            *)
(*   SpecLoopFair  SpecLoop in which every step of the loop ends           *)
(***************************************************************************)
EXTENDS Integers, Sequences, FiniteSets, TLC

\* ------------------------------------------------------------------ bounds

\* check cycles one behaviour runs through
MaxCycles == 3
\* the largest config.max_retries tried (the default is 3, the tests use 1)
MaxRetriesTried == 3
\* candidate containers on one repertoire page of a single-page venue
MaxCandidates == 2
\* clock ticks per calendar day
TicksPerDay == 2
\* pieces of text in one container
MaxFragments == 2
\* seat elements on one seat map
MaxSeatIds == 3
\* the largest SeatChecker.min_adjacent_seats tried (the default is 2)
MaxMinAdjacent == 3
\* candidate containers on the page given to one adapter
MaxContainers == 3
\* seconds of the wait between two cycles (check_interval_minutes * 60)
MaxWaitPolls == 2
\* performances passed to one call of check_seats_for_performances
MaxBatch == 3
\* performances one venue's ScrapeResult holds in the cycle model
MaxPerVenue == 2

\* ----------------------------------------------------------------- helpers

Range(s) == {s[i] : i \in DOMAIN s}


RECURSIVE Flatten(_)
\* list.extend over a sequence of lists
Flatten(ss) == IF ss = <<>> THEN <<>> ELSE Head(ss) \o Flatten(Tail(ss))

\* ------------------------------------------------------------- data model

\* TicketStatus
AVAILABLE == "available"
LIMITED == "limited"
SOLD_OUT == "sold_out"
UNKNOWN == "unknown"
TicketStatus == {AVAILABLE, LIMITED, SOLD_OUT, UNKNOWN}

\* An Optional[datetime] is <<>> (None) or <<t>>, t a number of clock ticks.
None == <<>>
Some(t) == <<t>>

\* A Performance record (the fields the code reads).
Performance(name, house, date, date_str, time, url, status) ==
    [opera_name |-> name, opera_house |-> house, date |-> date,
     date_str |-> date_str, time |-> time, ticket_url |-> url,
     status |-> status]

\* Performance.unique_id: the four identity fields joined by "|".
unique_id_without_time(p) ==
    p.opera_house \o "|" \o p.opera_name \o "|" \o p.date_str

unique_id(p) ==
    p.opera_house \o "|" \o p.opera_name \o "|" \o p.date_str \o "|" \o p.time

\* The identity of the data model: the ordered tuple itself.
Identity(p) == <<p.opera_house, p.opera_name, p.date_str, p.time>>

\* MonitorState.should_notify, on the notified set
should_notify_always(p, notified) == TRUE

should_notify(p, notified) == unique_id(p) \notin notified

\* MonitorState.mark_notified, on the notified set
mark_notified_replacing(p, notified) == {unique_id(p)}

mark_notified(p, notified) == notified \cup {unique_id(p)}

RECURSIVE mark_all(_, _)
\* "for r in new_results: self.state.mark_notified(r.performance)"
mark_all(perfs, notified) ==
    IF perfs = <<>> THEN notified
    ELSE mark_all(Tail(perfs), mark_notified(Head(perfs), notified))

\* --------------------------------------------------------- venue catalog

HouseKrakow == "Opera Krakowska"
HouseWarszawa == "Teatr Wielki - Opera Narodowa"
\* config.OPERA_HOUSES, two of its entries, in catalog order
OPERA_HOUSES == <<HouseWarszawa, HouseKrakow>>

\* Strings are kept in ASCII ("Straszny Dwor" for the canonical title).
\* Performances the venues can show in a cycle.  PerfA and PerfAv are the
\* same performance scraped twice with a different status, link and date;
\* PerfB has no time; PerfC has a date string that itself contains "|".
PerfA == Performance("Halka", HouseKrakow, Some(4), "15.06.2026", "19:00",
                     "https://opera.krakow.pl/pl/bilety", AVAILABLE)
PerfAv == Performance("Halka", HouseKrakow, Some(5), "15.06.2026", "19:00",
                      "https://opera.krakow.pl/kup/77", LIMITED)
PerfB == Performance("Halka", HouseKrakow, Some(4), "15.06.2026", "",
                     "https://opera.krakow.pl/pl/bilety", AVAILABLE)
PerfC == Performance("Halka", HouseKrakow, Some(4), "15.06.2026|19:00", "19:00",
                     "https://opera.krakow.pl/pl/bilety", AVAILABLE)
PerfW == Performance("Straszny Dwor", HouseWarszawa, Some(6),
                     "Sobota 7 lutego 2026", "18:00",
                     "https://teatrwielki.pl/kalendarium/termin/2026-02-07_18-00/",
                     AVAILABLE)
PerfD == Performance("Straszny Dwor", HouseKrakow, Some(4), "15.06.2026", "19:00",
                     "https://opera.krakow.pl/pl/bilety", AVAILABLE)
PerfPool == {PerfA, PerfAv, PerfB, PerfC, PerfD, PerfW}
\* the performances the venues show in the cycle model
CyclePool == {PerfA, PerfAv, PerfB, PerfW}

\* ------------------------------------------------------------- variables

VARIABLES
    entry,            \* "monitor" (run_forever) or "lambda" (check_tickets)
    check_seats,      \* OperaTicketMonitor.check_seats
    bucket,           \* whether STATE_BUCKET is set (Lambda)
    pc,               \* position in the cycle
    running,          \* OperaTicketMonitor.running
    cycle,            \* cycles started; also the clock reading of the cycle
    state,            \* the MonitorState in memory
    file,             \* the state file
    s3,               \* the S3 object monitor_state.json
    all_performances, \* list[Performance] of the cycle
    seat_results,     \* list[SeatCheckResult] of the cycle
    new_results,      \* the batch: new SeatCheckResults (monitor)
    new_performances, \* the batch: new Performances (Lambda)
    outcome,          \* how the last cycle ended: "none", "returned", "raised"
    send_result,      \* what the notifier returned in the cycle: "none", "ok", "failed"
    notified_pre,     \* history: the notified set when the cycle started
    sent,             \* history: successful dispatches per identity
    \* --- SpecState: one MonitorState driven directly
    st_notified,      \* MonitorState.notified_performances
    st_marked,        \* history: the performances passed to mark_notified
    st_probe,         \* the performance last passed to should_notify, or None
    st_answer,        \* what should_notify returned for it
    \* --- SpecFetch: one call of BaseScraper.fetch_page
    max_retries,      \* config.max_retries
    f_pc,             \* "request", "sleep" or "done"
    f_attempt,        \* the loop variable attempt
    f_log,            \* history: the outcome of every request issued
    f_sleeps,         \* history: asyncio.sleep(retry_delay_seconds) calls
    f_slept_last,     \* history: whether the last thing done was a sleep
    f_result,         \* the return value: None or Some(body)
    \* --- SpecScrape: one call of scrape_all_operas
    opera_houses,     \* the venue catalog passed in: [name, enabled] records
    now,              \* datetime.now() during the call, in ticks
    calendar_listing, \* the performance Teatr Wielki's calendar lists
    s_pc,             \* "gather" while the adapters run, then "done"
    t_pc,             \* per task: "fetch", "returned" or "raised"
    t_page,           \* per task: pages fetched so far
    t_performances,   \* per task: the adapter's local list performances
    t_value,          \* per task: what scrape() returned or raised
    t_none,           \* history, per task: page fetches that returned None
    calendar_seen,    \* history: candidates parsed from the calendar pages
    completed,        \* history: the tasks in completion order
    processed_results, \* the return value of scrape_all_operas
    \* --- SpecHelpers: one call of a helper of scrapers.py
    h_fn,             \* the helper called, "none" before the first call
    h_args,           \* its arguments
    h_result,         \* what it returned
    \* --- SpecSeats: one call of a method of SeatChecker
    min_adjacent_seats, \* SeatChecker.min_adjacent_seats
    sc_fn,            \* the method called, "none" before the first call
    sc_input,         \* the seat identifiers or the page it worked on
    sc_result,        \* what it returned
    \* --- SpecBatch: one call of check_seats_for_performances
    b_performances,   \* the argument performances
    b_pc,             \* "start", "loop", "checking", "exit", "returned", "raised"
    b_i,              \* position of the for loop in performances (from 1)
    b_results,        \* the local list results
    b_in_flight,      \* history: positions whose check_performance is running
    b_failed,         \* history: positions whose check failed
    b_started,        \* history: positions in the order their checks started
    \* --- SpecLoop: OperaTicketMonitor.run_forever
    l_pc,             \* "test", "check", "after_check", "wait", "save", "returned", "raised"
    l_running,        \* self.running
    check_count,      \* the local check_count
    consecutive_errors, \* the local consecutive_errors
    l_stage,          \* how far check_once has got: "scrape", "seats", "notify"
    l_wait,           \* iterations left of "for _ in range(sleep_seconds)"
    l_last,           \* history: how the last finished cycle went, or None
    l_failed_since,   \* history: failed cycles since the last successful one
    l_stop_count,     \* history: check_count when the signal arrived, -1 before
    l_saves           \* history: calls of state.save after the loop

cycVars == <<entry, check_seats, bucket, pc, running, cycle, state, file, s3,
             all_performances, seat_results, new_results, new_performances,
             outcome, send_result, notified_pre, sent>>

stVars == <<st_notified, st_marked, st_probe, st_answer>>

fetchVars == <<max_retries, f_pc, f_attempt, f_log, f_sleeps, f_slept_last,
               f_result>>

scrVars == <<opera_houses, now, calendar_listing, s_pc, t_pc, t_page,
             t_performances, t_value, t_none, calendar_seen, completed,
             processed_results>>

helpVars == <<h_fn, h_args, h_result>>

seatVars == <<min_adjacent_seats, sc_fn, sc_input, sc_result>>

batchVars == <<b_performances, b_pc, b_i, b_results, b_in_flight, b_failed,
               b_started>>

loopVars == <<l_pc, l_running, check_count, consecutive_errors, l_stage, l_wait,
              l_last, l_failed_since, l_stop_count, l_saves>>

vars == <<cycVars, stVars, fetchVars, scrVars, helpVars, seatVars, batchVars,
          loopVars>>

\* what the actions of one specification leave alone
notCycle == <<stVars, fetchVars, scrVars, helpVars, seatVars, batchVars, loopVars>>
notState == <<cycVars, fetchVars, scrVars, helpVars, seatVars, batchVars, loopVars>>
notFetch == <<cycVars, stVars, scrVars, helpVars, seatVars, batchVars, loopVars>>
notScrape == <<cycVars, stVars, fetchVars, helpVars, seatVars, batchVars, loopVars>>
notHelp == <<cycVars, stVars, fetchVars, scrVars, seatVars, batchVars, loopVars>>
notSeat == <<cycVars, stVars, fetchVars, scrVars, helpVars, batchVars, loopVars>>
notBatch == <<cycVars, stVars, fetchVars, scrVars, helpVars, seatVars, loopVars>>
notLoop == <<cycVars, stVars, fetchVars, scrVars, helpVars, seatVars, batchVars>>

\* ------------------------------------------------------------ persistence

\* What the state file or the S3 object holds: nothing, text that is not
\* JSON (a write that failed half way), or a saved state.
Stored(kind, notified, times) ==
    [kind |-> kind, notified_performances |-> notified, last_check_times |-> times]
Missing == Stored("missing", {}, <<>>)
Corrupt == Stored("corrupt", {}, <<>>)

\* MonitorState(): the empty state
EmptyState == [notified_performances |-> {}, last_check_times |-> <<>>]

\* MonitorState.save when the write succeeds
save(st) == Stored("state", st.notified_performances, st.last_check_times)

\* MonitorState.save when open() or json.dump raises: the file is untouched
\* (open failed) or truncated (the dump failed after open(..., "w")).
save_failed(old) == {old, Corrupt}

\* MonitorState.load: FileNotFoundError and JSONDecodeError give cls()
load(f) ==
    IF f.kind = "state"
    THEN [notified_performances |-> f.notified_performances,
          last_check_times |-> f.last_check_times]
    ELSE EmptyState

\* ---------------------------------------------------------- cycle inputs

\* ScrapeResult
ScrapeResult(house, success, perfs, err) ==
    [opera_house |-> house, success |-> success, performances |-> perfs,
     error_message |-> err]

\* SeatCheckResult (the fields the cycle reads)
SeatCheckResult(p, has_adjacent) ==
    [performance |-> p, has_adjacent_seats |-> has_adjacent]

PoolOf(house) == {p \in CyclePool : p.opera_house = house}

\* The lists an adapter can return for a venue: every adapter ends with
\* list(set(...)), so no two entries have the same unique_id.
PerfSeqs(house) ==
    {s \in UNION {[1..k -> PoolOf(house)] : k \in 0..MaxPerVenue} :
        \A i, j \in DOMAIN s : i # j => unique_id(s[i]) # unique_id(s[j])}

\* What scrape_all_operas can return for one venue
VenueResults(house) ==
    {ScrapeResult(house, FALSE, <<>>, "Failed to fetch repertoire page")}
    \cup {ScrapeResult(house, TRUE, s, "") : s \in PerfSeqs(house)}

\* What scrape_all_operas can return: one result per venue, in catalog order
ScrapeOutcomes ==
    {rs \in [DOMAIN OPERA_HOUSES -> UNION {VenueResults(h) : h \in Range(OPERA_HOUSES)}] :
        \A i \in DOMAIN rs : rs[i].opera_house = OPERA_HOUSES[i]}

\* "for result in results: if result.success: all_performances.extend(...)"
collect_performances(rs) ==
    Flatten([i \in DOMAIN rs |->
                IF rs[i].success THEN rs[i].performances ELSE <<>>])

\* "self.state.last_check_times[result.opera_house] = datetime.now()"
touch_check_times(times, rs, at) ==
    [h \in DOMAIN times \cup {rs[i].opera_house : i \in DOMAIN rs} |->
        IF \E i \in DOMAIN rs : rs[i].opera_house = h THEN at ELSE times[h]]

\* What check_seats_for_performances can return: one result per performance,
\* in input order, each with either verdict.
SeatOutcomes(perfs) ==
    {[i \in DOMAIN perfs |-> SeatCheckResult(perfs[i], b[i])] :
        b \in [DOMAIN perfs -> BOOLEAN]}

\* check_seats = False: every performance is assumed to have seats
assume_seats(perfs) ==
    [i \in DOMAIN perfs |-> SeatCheckResult(perfs[i], TRUE)]

RECURSIVE with_adjacent_seats(_)
\* "[r for r in seat_results if r.has_adjacent_seats]"
with_adjacent_seats(rs) ==
    IF rs = <<>> THEN <<>>
    ELSE IF Head(rs).has_adjacent_seats
         THEN <<Head(rs)>> \o with_adjacent_seats(Tail(rs))
         ELSE with_adjacent_seats(Tail(rs))

RECURSIVE select_new_results(_, _)
\* "[r for r in performances_with_seats if self.state.should_notify(r.performance)]"
select_new_results(rs, notified) ==
    IF rs = <<>> THEN <<>>
    ELSE IF should_notify(Head(rs).performance, notified)
         THEN <<Head(rs)>> \o select_new_results(Tail(rs), notified)
         ELSE select_new_results(Tail(rs), notified)

RECURSIVE select_new_performances(_, _)
\* Lambda: "if state.should_notify(perf): new_performances.append(perf)"
select_new_performances(perfs, notified) ==
    IF perfs = <<>> THEN <<>>
    ELSE IF should_notify(Head(perfs), notified)
         THEN <<Head(perfs)>> \o select_new_performances(Tail(perfs), notified)
         ELSE select_new_performances(Tail(perfs), notified)

performances_of(rs) == [i \in DOMAIN rs |-> rs[i].performance]

\* "if success: for r in new_results: self.state.mark_notified(r.performance)"
commit_regardless(success, perfs, notified) == mark_all(perfs, notified)

commit(success, perfs, notified) ==
    IF success THEN mark_all(perfs, notified) ELSE notified

\* history: one more successful dispatch for every identity of the batch
count_sent(counts, perfs) ==
    [id \in DOMAIN counts |->
        counts[id] + Cardinality({i \in DOMAIN perfs : Identity(perfs[i]) = id})]

\* ------------------------------------------------- the check cycle (Spec)

Identities == {Identity(p) : p \in CyclePool}

\* What the state file can hold when the process starts: nothing, or the
\* state an earlier process saved.
InitialFiles ==
    {Missing,
     Stored("state", {}, <<>>),
     Stored("state", {unique_id(PerfW)}, <<>>)}

\* OperaTicketMonitor.__init__ (state loaded from the state file), or the
\* Lambda container before an invocation.
InitCycle ==
    /\ entry \in {"monitor", "lambda"}
    /\ check_seats \in BOOLEAN
    /\ bucket \in BOOLEAN
    /\ (entry = "monitor" => bucket = FALSE)
    /\ (entry = "lambda" => check_seats = FALSE)
    /\ file \in InitialFiles
    /\ s3 = Missing
    /\ state = IF entry = "monitor" THEN load(file) ELSE EmptyState
    /\ pc = "idle"
    /\ running = TRUE
    /\ cycle = 0
    /\ all_performances = <<>>
    /\ seat_results = <<>>
    /\ new_results = <<>>
    /\ new_performances = <<>>
    /\ outcome = "none"
    /\ send_result = "none"
    /\ notified_pre = state.notified_performances
    /\ sent = [id \in Identities |-> 0]

\* shutdown_handler: SIGINT / SIGTERM, at any point of the loop
Shutdown ==
    /\ entry = "monitor"
    /\ running
    /\ pc # "stopped"
    /\ running' = FALSE
    /\ UNCHANGED <<entry, check_seats, bucket, pc, cycle, state, file, s3,
                   all_performances, seat_results, new_results,
                   new_performances, outcome, send_result, notified_pre, sent>>
    /\ UNCHANGED notCycle

\* check_once, step 1: scrape every venue, stamp last_check_times, collect
\* the performances; "if not all_performances: return []".
CheckOnce_Scrape ==
    /\ entry = "monitor"
    /\ pc = "idle"
    /\ running
    /\ cycle < MaxCycles
    /\ \E rs \in ScrapeOutcomes :
        /\ cycle' = cycle + 1
        /\ all_performances' = collect_performances(rs)
        /\ state' = [state EXCEPT !.last_check_times =
                        touch_check_times(@, rs, cycle + 1)]
        /\ pc' = IF all_performances' = <<>> THEN "idle" ELSE "seat_check"
        /\ outcome' = IF all_performances' = <<>> THEN "returned" ELSE "none"
    /\ seat_results' = <<>>
    /\ new_results' = <<>>
    /\ send_result' = "none"
    /\ notified_pre' = state.notified_performances
    /\ UNCHANGED <<entry, check_seats, bucket, running, file, s3,
                   new_performances, sent>>
    /\ UNCHANGED notCycle

\* check_once, step 2 when check_seats_for_performances raises (the browser
\* cannot be started): the exception leaves check_once.
CheckOnce_SeatCheckRaises ==
    /\ entry = "monitor"
    /\ pc = "seat_check"
    /\ check_seats
    /\ pc' = "idle"
    /\ outcome' = "raised"
    /\ UNCHANGED <<entry, check_seats, bucket, running, cycle, state, file, s3,
                   all_performances, seat_results, new_results,
                   new_performances, send_result, notified_pre, sent>>
    /\ UNCHANGED notCycle

\* check_once, step 2 and the start of step 3: seat-check every performance
\* (or assume seats when check_seats is off), keep those with adjacent
\* seats, then those the state has not notified; return when none is new.
CheckOnce_SeatCheck ==
    /\ entry = "monitor"
    /\ pc = "seat_check"
    /\ \E srs \in (IF check_seats THEN SeatOutcomes(all_performances)
                                   ELSE {assume_seats(all_performances)}) :
        /\ seat_results' = srs
        /\ new_results' = select_new_results(with_adjacent_seats(srs),
                                             state.notified_performances)
    /\ pc' = IF new_results' = <<>> THEN "idle" ELSE "notify"
    /\ outcome' = IF new_results' = <<>> THEN "returned" ELSE "none"
    /\ UNCHANGED <<entry, check_seats, bucket, running, cycle, state, file, s3,
                   all_performances, new_performances, send_result,
                   notified_pre, sent>>
    /\ UNCHANGED notCycle

\* check_once, step 3: dispatch the batch; on success mark every member and
\* save the state (the save may raise, which leaves check_once).
CheckOnce_Notify ==
    /\ entry = "monitor"
    /\ pc = "notify"
    /\ \E success \in BOOLEAN :
        /\ send_result' = IF success THEN "ok" ELSE "failed"
        /\ state' = [state EXCEPT !.notified_performances =
                        commit(success, performances_of(new_results), @)]
        /\ sent' = IF success
                   THEN count_sent(sent, performances_of(new_results))
                   ELSE sent
        /\ IF success
           THEN \/ file' = save(state') /\ outcome' = "returned"
                \/ file' \in save_failed(file) /\ outcome' = "raised"
           ELSE file' = file /\ outcome' = "returned"
    /\ pc' = "idle"
    /\ UNCHANGED <<entry, check_seats, bucket, running, cycle, s3,
                   all_performances, seat_results, new_results,
                   new_performances, notified_pre>>
    /\ UNCHANGED notCycle

\* run_forever after the loop: "self.state.save(self.config.state_file)"
RunForever_FinalSave ==
    /\ entry = "monitor"
    /\ pc = "idle"
    /\ ~running
    /\ pc' = "stopped"
    /\ \/ file' = save(state)
       \/ file' \in save_failed(file)
    /\ UNCHANGED <<entry, check_seats, bucket, running, cycle, state, s3,
                   all_performances, seat_results, new_results,
                   new_performances, outcome, send_result, notified_pre, sent>>
    /\ UNCHANGED notCycle

\* load_state_from_s3: None without a bucket or when the read raises
load_state_from_s3(ok) ==
    IF bucket /\ ok /\ s3.kind = "state" THEN <<load(s3)>> ELSE None

\* check_tickets, start: "state = await load_state_from_s3() or
\* MonitorState.load(state_file)"
Lambda_LoadState ==
    /\ entry = "lambda"
    /\ pc = "idle"
    /\ cycle < MaxCycles
    /\ cycle' = cycle + 1
    /\ \E ok \in BOOLEAN :
        state' = IF load_state_from_s3(ok) # None
                 THEN load_state_from_s3(ok)[1]
                 ELSE load(file)
    /\ notified_pre' = state'.notified_performances
    /\ pc' = "lambda_scrape"
    /\ all_performances' = <<>>
    /\ new_performances' = <<>>
    /\ send_result' = "none"
    /\ outcome' = "none"
    /\ UNCHANGED <<entry, check_seats, bucket, running, file, s3,
                   seat_results, new_results, sent>>
    /\ UNCHANGED notCycle

\* check_tickets: scrape, collect all performances and the new ones
Lambda_Scrape ==
    /\ entry = "lambda"
    /\ pc = "lambda_scrape"
    /\ \E rs \in ScrapeOutcomes :
        /\ all_performances' = collect_performances(rs)
        /\ new_performances' = select_new_performances(
                                    all_performances', state.notified_performances)
    /\ pc' = IF new_performances' = <<>> THEN "idle" ELSE "lambda_notify"
    /\ outcome' = IF new_performances' = <<>> THEN "returned" ELSE "none"
    /\ UNCHANGED <<entry, check_seats, bucket, running, cycle, state, file, s3,
                   seat_results, new_results, send_result, notified_pre, sent>>
    /\ UNCHANGED notCycle

\* check_tickets: "if new_performances: success = notifier.send_notification";
\* on success mark, save the file (may raise) and save to S3 (a failure
\* there is logged and swallowed).
Lambda_Notify ==
    /\ entry = "lambda"
    /\ pc = "lambda_notify"
    /\ \E success \in BOOLEAN :
        /\ send_result' = IF success THEN "ok" ELSE "failed"
        /\ state' = [state EXCEPT !.notified_performances =
                        commit(success, new_performances, @)]
        /\ sent' = IF success THEN count_sent(sent, new_performances) ELSE sent
        /\ IF success
           THEN \/ /\ file' = save(state')
                   /\ outcome' = "returned"
                   /\ \/ s3' = IF bucket THEN save(state') ELSE s3
                      \/ bucket /\ s3' = s3
                \/ /\ file' \in save_failed(file)
                   /\ outcome' = "raised"
                   /\ s3' = s3
           ELSE file' = file /\ s3' = s3 /\ outcome' = "returned"
    /\ pc' = "idle"
    /\ UNCHANGED <<entry, check_seats, bucket, running, cycle,
                   all_performances, seat_results, new_results,
                   new_performances, notified_pre>>
    /\ UNCHANGED notCycle

NextCycle ==
    \/ Shutdown
    \/ CheckOnce_Scrape
    \/ CheckOnce_SeatCheckRaises
    \/ CheckOnce_SeatCheck
    \/ CheckOnce_Notify
    \/ RunForever_FinalSave
    \/ Lambda_LoadState
    \/ Lambda_Scrape
    \/ Lambda_Notify

\* ------------------------------------------ MonitorState alone (SpecState)

InitState ==
    /\ st_notified = {}
    /\ st_marked = {}
    /\ st_probe = None
    /\ st_answer = FALSE

\* state.mark_notified(p)
State_MarkNotified ==
    /\ \E p \in PerfPool :
        /\ st_notified' = mark_notified(p, st_notified)
        /\ st_marked' = st_marked \cup {p}
    /\ st_probe' = None
    /\ st_answer' = FALSE
    /\ UNCHANGED notState

\* state.should_notify(p)
State_ShouldNotify ==
    /\ \E p \in PerfPool :
        /\ st_probe' = Some(p)
        /\ st_answer' = should_notify(p, st_notified)
    /\ UNCHANGED <<st_notified, st_marked>>
    /\ UNCHANGED notState

NextState ==
    \/ State_MarkNotified
    \/ State_ShouldNotify

\* ------------------------------------------- fetch_page (SpecFetch)

\* What one session.get can come to.  "ok": status 200 and the body read;
\* "body_error": status 200, then response.text() raises (the total timeout
\* runs out while the body is read, or the body does not decode);
\* "status": any other status; "timeout": asyncio.TimeoutError;
\* "client_error": aiohttp.ClientError; "error": any other Exception.
RequestKinds == {"ok", "body_error", "status", "timeout", "client_error", "error"}

\* the page bodies a venue serves (one of them empty)
Bodies == {"", "<html>"}

RequestOutcomes ==
    {[kind |-> "ok", body |-> b] : b \in Bodies}
    \cup {[kind |-> k, body |-> ""] : k \in RequestKinds \ {"ok"}}

\* "if response.status == 200: return await response.text()" returned
returns_body(o) == o.kind = "ok"

\* "if attempt < self.config.max_retries - 1: await asyncio.sleep(...)"
sleeps_after_every_failure(attempt, retries) == TRUE

sleeps_after(attempt, retries) == attempt < retries - 1

InitFetch ==
    /\ max_retries \in 0..MaxRetriesTried
    /\ f_pc = "request"
    /\ f_attempt = 0
    /\ f_log = <<>>
    /\ f_sleeps = 0
    /\ f_slept_last = FALSE
    /\ f_result = None

\* one pass of "for attempt in range(max_retries)": the request and what
\* follows it up to the next await
Fetch_Request ==
    /\ f_pc = "request"
    /\ f_attempt < max_retries
    /\ \E o \in RequestOutcomes :
        /\ f_log' = Append(f_log, o)
        /\ IF returns_body(o)
           THEN /\ f_result' = Some(o.body)
                /\ f_pc' = "done"
                /\ f_attempt' = f_attempt
           ELSE /\ f_result' = f_result
                /\ IF sleeps_after(f_attempt, max_retries)
                   THEN f_pc' = "sleep" /\ f_attempt' = f_attempt
                   ELSE f_pc' = "request" /\ f_attempt' = f_attempt + 1
    /\ f_slept_last' = FALSE
    /\ UNCHANGED <<max_retries, f_sleeps>>
    /\ UNCHANGED notFetch

\* "await asyncio.sleep(self.config.retry_delay_seconds)", then the next pass
Fetch_Sleep ==
    /\ f_pc = "sleep"
    /\ f_sleeps' = f_sleeps + 1
    /\ f_slept_last' = TRUE
    /\ f_attempt' = f_attempt + 1
    /\ f_pc' = "request"
    /\ UNCHANGED <<max_retries, f_log, f_result>>
    /\ UNCHANGED notFetch

\* the loop is exhausted: "return None"
Fetch_ReturnNone ==
    /\ f_pc = "request"
    /\ f_attempt >= max_retries
    /\ f_pc' = "done"
    /\ f_result' = None
    /\ UNCHANGED <<max_retries, f_attempt, f_log, f_sleeps, f_slept_last>>
    /\ UNCHANGED notFetch

NextFetch ==
    \/ Fetch_Request
    \/ Fetch_Sleep
    \/ Fetch_ReturnNone

\* ------------------------------ adapters and orchestrator (SpecScrape)

\* the first tick of the day t falls on: what
\* datetime.now().replace(hour=0, minute=0, second=0, microsecond=0) gives
midnight_of(t) == t - (t % TicksPerDay)

\* is_future_date
is_future_date(dt, t) ==
    IF dt = None THEN FALSE ELSE dt[1] >= midnight_of(t)

\* is_available
is_available_unless_sold_out(status) == status # SOLD_OUT

is_available(status) == status = AVAILABLE \/ status = LIMITED

\* config.OPERA_HOUSES names, written without diacritics
HouseWroclaw == "Opera Wroclawska"
HouseGdansk == "Opera Baltycka"
HouseBydgoszcz == "Opera Nova"

\* get_scraper: the adapter class of a venue
get_scraper(house) ==
    CASE house = HouseWarszawa -> "TeatrWielkiWarszawaScraper"
      [] house = HouseWroclaw -> "OperaWroclawScraper"
      [] house = HouseGdansk -> "OperaBaltyckaGdanskScraper"
      [] house = HouseBydgoszcz -> "OperaNovaBydgoszczScraper"
      [] OTHER -> "GenericOperaScraper"

\* the days of the model: yesterday, today and tomorrow, in ticks
Yesterday == 0
Today == TicksPerDay
Tomorrow == 2 * TicksPerDay

\* The candidate records the parsers can extract from a venue's pages:
\* what _parse_repertoire / _parse_kalendarium build before any filtering.
Candidates(house) ==
    IF house = HouseWarszawa
    THEN {Performance("Halka", house, Some(Tomorrow + 1), "Niedziela 7 grudnia 2025",
                      "18:00", "https://teatrwielki.pl/halka/termin/2025-12-07_18-00/",
                      AVAILABLE),
          Performance("Straszny Dwor", house, Some(Tomorrow), "Niedziela 7 grudnia 2025",
                      "12:00", "https://teatrwielki.pl/dwor/termin/2025-12-07_12-00/",
                      SOLD_OUT)}
    ELSE IF house = HouseKrakow
    THEN {Performance("Halka", house, Some(Tomorrow), "15.06.2026", "19:00",
                      "https://opera.krakow.pl/pl/bilety", AVAILABLE),
          Performance("Halka", house, Some(Tomorrow), "15.06.2026", "19:00",
                      "https://opera.krakow.pl/pl/bilety", SOLD_OUT),
          Performance("Halka", house, None, "", "",
                      "https://opera.krakow.pl/pl/bilety", AVAILABLE)}
    ELSE {Performance("Halka", house, Some(Today), "Sobota 6 grudnia 2025", "19:00",
                      "https://bilety.example/kup", LIMITED),
          Performance("Halka", house, Some(Yesterday + TicksPerDay - 1),
                      "Piatek 5 grudnia 2025", "19:00",
                      "https://bilety.example/kup", AVAILABLE),
          Performance("Straszny Dwor", house, Some(Tomorrow), "Niedziela 7 grudnia 2025",
                      "19:00", "", UNKNOWN)}

\* What an adapter's exception can carry as str(e): the message of the
\* ValueError datetime() raises, or nothing (an exception raised without
\* arguments, such as MemoryError()).
ExceptionTexts == {"month must be in 1..12", ""}

\* What fetch_page hands an adapter for one URL: None, or a page.  A page is
\* modelled by what the parser makes of it: the candidates it extracts, or
\* the exception it raises; an empty body is a page of its own.
FetchedNone == [kind |-> "none", candidates |-> <<>>, text |-> ""]
EmptyBody == [kind |-> "empty", candidates |-> <<>>, text |-> ""]
Page(cands) == [kind |-> "html", candidates |-> cands, text |-> ""]
Malformed(text) == [kind |-> "malformed", candidates |-> <<>>, text |-> text]

\* "if not html" / "if html": None and "" are both falsy
falsy(html) == html.kind \in {"none", "empty"}

\* the pages of a single-page venue
SinglePages(house) ==
    {FetchedNone, EmptyBody}
    \cup {Malformed(x) : x \in ExceptionTexts}
    \cup {Page(cs) : cs \in UNION {[1..k -> Candidates(house)] : k \in 0..MaxCandidates}}

\* the calendar pages of Teatr Wielki: the month's page lists the
\* performance or it does not
CalendarPages(listing) ==
    {FetchedNone, Page(<<>>), Page(<<listing>>)}
    \cup {Malformed(x) : x \in ExceptionTexts}

\* range(7) month pages after the current kalendarium page
MonthPages == 7
CalendarPageCount == MonthPages + 1

RECURSIVE valid_performances(_, _)
\* "[p for p in performances if is_future_date(p.date) and is_available(p.status)]"
valid_performances(perfs, t) ==
    IF perfs = <<>> THEN <<>>
    ELSE IF is_future_date(Head(perfs).date, t) /\ is_available(Head(perfs).status)
         THEN <<Head(perfs)>> \o valid_performances(Tail(perfs), t)
         ELSE valid_performances(Tail(perfs), t)

RECURSIVE set_members(_, _)
\* set(perfs): adding a Performance equal to one already in the set (same
\* unique_id) leaves the set as it is, so the first of each identity stays.
set_members(perfs, ids) ==
    IF perfs = <<>> THEN <<>>
    ELSE IF unique_id(Head(perfs)) \in ids
         THEN set_members(Tail(perfs), ids)
         ELSE <<Head(perfs)>> \o set_members(Tail(perfs), ids \cup {unique_id(Head(perfs))})

\* list(set(perfs)): the members in whatever order the hash table holds them
list_of_set(perfs) ==
    LET m == set_members(perfs, {})
        n == Len(m)
    IN {[i \in 1..n |-> m[f[i]]] :
            f \in {g \in [1..n -> 1..n] : \A a, b \in 1..n : a # b => g[a] # g[b]}}

\* what a coroutine comes to
Returned(r) == [kind |-> "returned", result |-> r, text |-> ""]
Raised(text) ==
    [kind |-> "raised", result |-> ScrapeResult("", FALSE, <<>>, ""), text |-> text]
Pending == [kind |-> "pending", result |-> ScrapeResult("", FALSE, <<>>, ""), text |-> ""]

\* GenericOperaScraper.scrape: the outcomes for one fetched page
generic_scrape(house, html, t) ==
    IF falsy(html)
    THEN {Returned(ScrapeResult(house, FALSE, <<>>, "Failed to fetch repertoire page"))}
    ELSE IF html.kind = "malformed"
    THEN {Returned(ScrapeResult(house, FALSE, <<>>, html.text))}
    ELSE {Returned(ScrapeResult(house, TRUE, valid_performances(u, t), "")) :
            u \in list_of_set(html.candidates)}

\* OperaWroclawScraper.scrape, OperaBaltyckaGdanskScraper.scrape and
\* OperaNovaBydgoszczScraper.scrape: the outcomes for one fetched page
single_page_scrape_succeeding(house, html, t) ==
    IF html.kind = "malformed"
    THEN {Raised(html.text)}
    ELSE {Returned(ScrapeResult(house, TRUE, u, "")) :
            u \in list_of_set(valid_performances(html.candidates, t))}

single_page_scrape(house, html, t) ==
    IF falsy(html)
    THEN {Returned(ScrapeResult(house, FALSE, <<>>, "Failed to fetch page"))}
    ELSE IF html.kind = "malformed"
    THEN {Raised(html.text)}
    ELSE {Returned(ScrapeResult(house, TRUE, u, "")) :
            u \in list_of_set(valid_performances(html.candidates, t))}

\* TeatrWielkiWarszawaScraper.scrape, the loop body after the fetch:
\* "if html: performances.extend(self._parse_kalendarium(html))"
calendar_extend_or_reset(perfs, html) ==
    IF falsy(html) THEN <<>> ELSE perfs \o html.candidates

calendar_extend(perfs, html) ==
    IF falsy(html) THEN perfs ELSE perfs \o html.candidates

\* TeatrWielkiWarszawaScraper.scrape after the loop
calendar_return(house, perfs, t) ==
    {Returned(ScrapeResult(house, TRUE, u, "")) :
        u \in list_of_set(valid_performances(perfs, t))}

RECURSIVE enabled_names(_)
\* "[get_scraper(house, config) for house in opera_houses if house.enabled]",
\* each scraper named by its venue
enabled_names(houses) ==
    IF houses = <<>> THEN <<>>
    ELSE IF Head(houses).enabled
         THEN <<Head(houses).name>> \o enabled_names(Tail(houses))
         ELSE enabled_names(Tail(houses))

scrapers == enabled_names(opera_houses)

Tasks == DOMAIN scrapers

\* asyncio.gather(*tasks, return_exceptions=True): the results in the order
\* of the tasks, whatever the order of completion
gather(values, order) == [i \in DOMAIN values |-> values[i]]

\* "for i, result in enumerate(results)": an exception becomes a failed
\* ScrapeResult of scrapers[i] carrying str(result)
process_results(results) ==
    [i \in DOMAIN results |->
        IF results[i].kind = "raised"
        THEN ScrapeResult(scrapers[i], FALSE, <<>>, results[i].text)
        ELSE results[i].result]

\* the catalogs tried: Teatr Wielki, a venue of the generic adapter and
\* Wroclaw, or the two other venues with adapters of their own; each venue
\* enabled or not
Catalogs ==
    {<<[name |-> HouseWarszawa, enabled |-> e[1]],
       [name |-> HouseKrakow, enabled |-> e[2]],
       [name |-> HouseWroclaw, enabled |-> e[3]]>> : e \in [1..3 -> BOOLEAN]}
    \cup {<<[name |-> HouseGdansk, enabled |-> e[1]],
            [name |-> HouseBydgoszcz, enabled |-> e[2]]>> : e \in [1..2 -> BOOLEAN]}

InitScrape ==
    /\ opera_houses \in Catalogs
    /\ now \in {Today, Today + TicksPerDay - 1}
    /\ calendar_listing \in Candidates(HouseWarszawa)
    /\ s_pc = "gather"
    /\ t_pc = [i \in Tasks |-> "fetch"]
    /\ t_page = [i \in Tasks |-> 0]
    /\ t_performances = [i \in Tasks |-> <<>>]
    /\ t_value = [i \in Tasks |-> Pending]
    /\ t_none = [i \in Tasks |-> 0]
    /\ calendar_seen = {}
    /\ completed = <<>>
    /\ processed_results = <<>>

\* a single-page adapter fetches its repertoire page and returns or raises
Scrape_SinglePage ==
    /\ s_pc = "gather"
    /\ \E i \in Tasks :
        /\ t_pc[i] = "fetch"
        /\ get_scraper(scrapers[i]) # "TeatrWielkiWarszawaScraper"
        /\ \E html \in SinglePages(scrapers[i]) :
            /\ \E v \in (IF get_scraper(scrapers[i]) = "GenericOperaScraper"
                         THEN generic_scrape(scrapers[i], html, now)
                         ELSE single_page_scrape(scrapers[i], html, now)) :
                /\ t_value' = [t_value EXCEPT ![i] = v]
                /\ t_pc' = [t_pc EXCEPT ![i] = v.kind]
            /\ t_none' = [t_none EXCEPT ![i] = IF html.kind = "none" THEN 1 ELSE 0]
        /\ t_page' = [t_page EXCEPT ![i] = 1]
        /\ completed' = Append(completed, i)
    /\ UNCHANGED <<opera_houses, now, calendar_listing, s_pc, t_performances,
                   calendar_seen, processed_results>>
    /\ UNCHANGED notScrape

\* TeatrWielkiWarszawaScraper.scrape: "for url in month_urls", one page
Scrape_CalendarPage ==
    /\ s_pc = "gather"
    /\ \E i \in Tasks :
        /\ t_pc[i] = "fetch"
        /\ get_scraper(scrapers[i]) = "TeatrWielkiWarszawaScraper"
        /\ t_page[i] < CalendarPageCount
        /\ \E html \in CalendarPages(calendar_listing) :
            /\ t_page' = [t_page EXCEPT ![i] = @ + 1]
            /\ calendar_seen' = calendar_seen \cup Range(html.candidates)
            /\ t_none' = [t_none EXCEPT ![i] = IF html.kind = "none" THEN @ + 1 ELSE @]
            /\ IF html.kind = "malformed"
               THEN /\ t_value' = [t_value EXCEPT ![i] = Raised(html.text)]
                    /\ t_pc' = [t_pc EXCEPT ![i] = "raised"]
                    /\ completed' = Append(completed, i)
                    /\ UNCHANGED t_performances
               ELSE /\ t_performances' =
                        [t_performances EXCEPT ![i] = calendar_extend(@, html)]
                    /\ UNCHANGED <<t_value, t_pc, completed>>
    /\ UNCHANGED <<opera_houses, now, calendar_listing, s_pc, processed_results>>
    /\ UNCHANGED notScrape

\* TeatrWielkiWarszawaScraper.scrape after the last page: filter, remove
\* duplicates, return
Scrape_CalendarReturn ==
    /\ s_pc = "gather"
    /\ \E i \in Tasks :
        /\ t_pc[i] = "fetch"
        /\ get_scraper(scrapers[i]) = "TeatrWielkiWarszawaScraper"
        /\ t_page[i] = CalendarPageCount
        /\ \E v \in calendar_return(scrapers[i], t_performances[i], now) :
            t_value' = [t_value EXCEPT ![i] = v]
        /\ t_pc' = [t_pc EXCEPT ![i] = "returned"]
        /\ completed' = Append(completed, i)
    /\ UNCHANGED <<opera_houses, now, calendar_listing, s_pc, t_page,
                   t_performances, t_none, calendar_seen, processed_results>>
    /\ UNCHANGED notScrape

\* scrape_all_operas once every task is done: gather hands back the
\* results, exceptions are converted, the list is returned
ScrapeAll_Return ==
    /\ s_pc = "gather"
    /\ \A i \in Tasks : t_pc[i] # "fetch"
    /\ processed_results' = process_results(gather(t_value, completed))
    /\ s_pc' = "done"
    /\ UNCHANGED <<opera_houses, now, calendar_listing, t_pc, t_page,
                   t_performances, t_value, t_none, calendar_seen, completed>>
    /\ UNCHANGED notScrape

NextScrape ==
    \/ Scrape_SinglePage
    \/ Scrape_CalendarPage
    \/ Scrape_CalendarReturn
    \/ ScrapeAll_Return

\* ------------------------------ helpers of scrapers.py (SpecHelpers)

\* days after today of the dates is_future_date is applied to
DayOffsets == {-1, 0, 30, 235, 245, 300}

\* the datetimes tried: none, and every time of day of the days above
LookaheadDates ==
    {None} \cup {Some(Today + d * TicksPerDay + tod) :
                    d \in DayOffsets, tod \in 0..(TicksPerDay - 1)}

\* the times of day at which the call happens
CallTimes == {Today + tod : tod \in 0..(TicksPerDay - 1)}

InitHelp ==
    /\ h_fn = "none"
    /\ h_args = <<>>
    /\ h_result = <<>>

\* is_future_date(dt), called at some time of today
Help_IsFutureDate ==
    /\ h_fn = "none"
    /\ \E dt \in LookaheadDates, t \in CallTimes :
        /\ h_args' = [dt |-> dt, now |-> t]
        /\ h_result' = is_future_date(dt, t)
    /\ h_fn' = "is_future_date"
    /\ UNCHANGED notHelp

\* the venues whose adapters are compared: one per adapter class
AdapterHouses == {HouseWarszawa, HouseKrakow, HouseWroclaw, HouseGdansk, HouseBydgoszcz}

\* Raw candidates a parser can build for a venue: an available performance,
\* the same performance (same date string and time) read as sold out, a
\* second available performance, and one whose date could not be parsed.
RawCandidates(house) ==
    {Performance("Halka", house, Some(Tomorrow), "Niedziela 7 grudnia 2025", "19:00",
                 "https://bilety.example/kup", AVAILABLE),
     Performance("Halka", house, Some(Tomorrow), "Niedziela 7 grudnia 2025", "19:00",
                 "https://bilety.example/kup", SOLD_OUT),
     Performance("Straszny Dwor", house, Some(Today), "Sobota 6 grudnia 2025", "18:00",
                 "https://bilety.example/kup", AVAILABLE),
     Performance("Halka", house, None, "", "", "https://bilety.example/kup", AVAILABLE)}

RawLists(house) ==
    UNION {[1..k -> RawCandidates(house)] : k \in 0..MaxCandidates}

\* what scrape() makes of the raw candidates its parser extracted
post_process(house, cands, t) ==
    CASE get_scraper(house) = "TeatrWielkiWarszawaScraper" ->
            calendar_return(house, cands, t)
      [] get_scraper(house) = "GenericOperaScraper" ->
            generic_scrape(house, Page(cands), t)
      [] OTHER ->
            single_page_scrape(house, Page(cands), t)

\* an adapter's filtering and deduplication, applied to raw candidates
Help_PostProcess ==
    /\ h_fn = "none"
    /\ \E house \in AdapterHouses, t \in CallTimes :
        \E cands \in RawLists(house) :
            \E v \in post_process(house, cands, t) :
                /\ h_args' = [house |-> house, candidates |-> cands, now |-> t]
                /\ h_result' = v.result.performances
    /\ h_fn' = "post_process"
    /\ UNCHANGED notHelp

\* --- text.  A text is the sequence of its characters; the letters with
\* diacritics that occur in the keywords are written with an apostrophe
\* ("o'" for o-acute, "e'" for e-ogonek), each one character.

UpperCase ==
    <<"A", "B", "C", "D", "E", "F", "G", "H", "I", "J", "K", "L", "M", "N",
      "O", "P", "Q", "R", "S", "T", "U", "V", "W", "X", "Y", "Z", "O'", "E'">>
LowerCase ==
    <<"a", "b", "c", "d", "e", "f", "g", "h", "i", "j", "k", "l", "m", "n",
      "o", "p", "q", "r", "s", "t", "u", "v", "w", "x", "y", "z", "o'", "e'">>

\* str.lower() on one character
lower_char(c) ==
    IF \E i \in DOMAIN UpperCase : UpperCase[i] = c
    THEN LowerCase[CHOOSE i \in DOMAIN UpperCase : UpperCase[i] = c]
    ELSE c

\* str.lower()
lower(text) == [i \in DOMAIN text |-> lower_char(text[i])]

\* "needle in text" on strings
contains(needle, text) ==
    \E i \in 0..(Len(text) - Len(needle)) :
        \A j \in 1..Len(needle) : text[i + j] = needle[j]

\* config.TARGET_OPERAS
TARGET_OPERAS ==
    <<<<"S", "t", "r", "a", "s", "z", "n", "y", " ", "D", "w", "o'", "r">>,
      <<"S", "t", "r", "a", "s", "z", "n", "y", " ", "d", "w", "o'", "r">>,
      <<"S", "T", "R", "A", "S", "Z", "N", "Y", " ", "D", "W", "O'", "R">>,
      <<"H", "a", "l", "k", "a">>,
      <<"H", "A", "L", "K", "A">>,
      <<"h", "a", "l", "k", "a">>>>

\* config.AVAILABILITY_KEYWORDS
AVAILABILITY_KEYWORDS ==
    <<<<"k", "u", "p", " ", "b", "i", "l", "e", "t">>,
      <<"b", "i", "l", "e", "t", "y", " ", "d", "o", "s", "t", "e'", "p", "n", "e">>,
      <<"k", "u", "p", " ", "t", "e", "r", "a", "z">>,
      <<"r", "e", "z", "e", "r", "w", "u", "j">>,
      <<"d", "o", "s", "t", "e'", "p", "n", "e">>,
      <<"w", "o", "l", "n", "e", " ", "m", "i", "e", "j", "s", "c", "a">>,
      <<"b", "u", "y", " ", "t", "i", "c", "k", "e", "t">>,
      <<"a", "v", "a", "i", "l", "a", "b", "l", "e">>>>

\* config.SOLD_OUT_KEYWORDS
SOLD_OUT_KEYWORDS ==
    <<<<"w", "y", "p", "r", "z", "e", "d", "a", "n", "e">>,
      <<"b", "r", "a", "k", " ", "b", "i", "l", "e", "t", "o'", "w">>,
      <<"s", "o", "l", "d", " ", "o", "u", "t">>,
      <<"n", "i", "e", "d", "o", "s", "t", "e'", "p", "n", "e">>,
      <<"b", "r", "a", "k", " ", "m", "i", "e", "j", "s", "c">>>>

\* pieces of text found in the containers of a repertoire page
TextFragments ==
    {<<"H", "a", "l", "k", "a">>,
      <<"S", "T", "R", "A", "S", "Z", "N", "Y", " ", "D", "W", "O'", "R">>,
      <<"s", "t", "r", "a", "s", "z", "n", "y">>,
      <<"W", "y", "p", "r", "z", "e", "d", "a", "n", "e">>,
      <<"K", "u", "p", " ", "b", "i", "l", "e", "t">>,
      <<"b", "r", "a", "k", " ", "m", "i", "e", "j", "s", "c">>,
      <<"N", "I", "E", "D", "O", "S", "T", "E'", "P", "N", "E">>,
      <<"B", "i", "l", "e", "t", "y">>,
      <<"s", "o", "l", "d", " ", "o", "u", "t">>}

RECURSIVE join(_)
\* get_text(separator=" "): the pieces joined by single spaces
join(pieces) ==
    IF pieces = <<>> THEN <<>>
    ELSE IF Len(pieces) = 1 THEN pieces[1]
    ELSE pieces[1] \o <<" ">> \o join(Tail(pieces))

\* the texts tried
Texts == {join(ps) : ps \in UNION {[1..k -> TextFragments] : k \in 0..MaxFragments}}

\* "any(kw in text for kw in keywords)"
any_keyword_in(keywords, text) ==
    \E k \in DOMAIN keywords : contains(keywords[k], text)

\* BaseScraper._detect_availability
detect_availability_buy_first(text) ==
    IF any_keyword_in(AVAILABILITY_KEYWORDS, lower(text)) THEN AVAILABLE
    ELSE IF any_keyword_in(SOLD_OUT_KEYWORDS, lower(text)) THEN SOLD_OUT
    ELSE UNKNOWN

detect_availability(text) ==
    IF any_keyword_in(SOLD_OUT_KEYWORDS, lower(text)) THEN SOLD_OUT
    ELSE IF any_keyword_in(AVAILABILITY_KEYWORDS, lower(text)) THEN AVAILABLE
    ELSE UNKNOWN

\* _detect_availability(text)
Help_DetectAvailability ==
    /\ h_fn = "none"
    /\ \E text \in Texts :
        /\ h_args' = [text |-> text]
        /\ h_result' = detect_availability(text)
    /\ h_fn' = "detect_availability"
    /\ UNCHANGED notHelp

RECURSIVE is_target_from(_, _)
\* BaseScraper._is_target_opera, the loop "for opera in TARGET_OPERAS" from
\* its k-th round on
is_target_from(text_lower, k) ==
    IF k > Len(TARGET_OPERAS) THEN None
    ELSE IF contains(lower(TARGET_OPERAS[k]), text_lower)
         THEN IF contains(<<"s", "t", "r", "a", "s", "z", "n", "y">>, text_lower)
              THEN Some("Straszny Dwor")
              ELSE IF contains(<<"h", "a", "l", "k", "a">>, text_lower)
                   THEN Some("Halka")
                   ELSE is_target_from(text_lower, k + 1)
         ELSE is_target_from(text_lower, k + 1)

is_target_opera(text) == is_target_from(lower(text), 1)

\* _is_target_opera(text)
Help_IsTargetOpera ==
    /\ h_fn = "none"
    /\ \E text \in Texts :
        /\ h_args' = [text |-> text]
        /\ h_result' = is_target_opera(text)
    /\ h_fn' = "is_target_opera"
    /\ UNCHANGED notHelp

\* TeatrWielkiWarszawaScraper._parse_kalendarium: "Check availability"
kalendarium_status(text) ==
    LET t == lower(text)
    IN  IF contains(<<"w", "y", "p", "r", "z", "e", "d", "a", "n", "e">>, t)
           \/ contains(<<"s", "o", "l", "d", " ", "o", "u", "t">>, t)
        THEN SOLD_OUT
        ELSE IF contains(<<"k", "u", "p", " ", "b", "i", "l", "e", "t">>, t)
                \/ contains(<<"b", "i", "l", "e", "t", "y">>, t)
             THEN AVAILABLE
             ELSE UNKNOWN

\* OperaWroclawScraper._parse_repertoire: "Determine availability"
wroclaw_status(text, has_buy_link) ==
    LET t == lower(text)
    IN  IF contains(<<"w", "y", "p", "r", "z", "e", "d", "a", "n", "e">>, t)
           \/ contains(<<"b", "r", "a", "k", " ", "m", "i", "e", "j", "s", "c">>, t)
           \/ contains(<<"b", "r", "a", "k", " ", "b", "i", "l", "e", "t", "o'", "w">>, t)
        THEN SOLD_OUT
        ELSE IF has_buy_link THEN AVAILABLE ELSE UNKNOWN

\* OperaBaltyckaGdanskScraper._parse_repertoire: "Check availability"
baltycka_status(text) ==
    IF contains(<<"w", "y", "p", "r", "z", "e", "d", "a", "n", "e">>, lower(text))
    THEN SOLD_OUT
    ELSE detect_availability(text)

\* the status an adapter's parser gives a container
container_status(house, text, has_buy_link) ==
    CASE get_scraper(house) = "TeatrWielkiWarszawaScraper" -> kalendarium_status(text)
      [] get_scraper(house) = "OperaWroclawScraper" -> wroclaw_status(text, has_buy_link)
      [] get_scraper(house) = "OperaBaltyckaGdanskScraper" -> baltycka_status(text)
      [] OTHER -> detect_availability(text)

\* OperaWroclawScraper._parse_repertoire: a link counts as a buy link when
\* its text has "kup" and "bilet"; the link's text is part of the container's
BuyLinks(text) ==
    {FALSE} \cup
    {b \in {TRUE} : /\ contains(<<"k", "u", "p">>, lower(text))
                    /\ contains(<<"b", "i", "l", "e", "t">>, lower(text))}

\* the titles the containers carry
Titles ==
    {<<"H", "a", "l", "k", "a">>,
     <<"S", "T", "R", "A", "S", "Z", "N", "Y", " ", "D", "W", "O'", "R">>}

\* the texts of the containers tried: a title followed by other pieces
ContainerTexts ==
    {join(<<title>> \o ps) :
        title \in Titles,
        ps \in UNION {[1..k -> TextFragments] : k \in 0..MaxFragments}}

\* An adapter parses a page with one container dated tomorrow and filters
\* what it built.
Help_ParseContainer ==
    /\ h_fn = "none"
    /\ \E house \in AdapterHouses, t \in CallTimes, text \in ContainerTexts :
        \E link \in BuyLinks(text) :
            LET status == container_status(house, text, link)
                cand == Performance(is_target_opera(text)[1], house, Some(Tomorrow),
                                    "Niedziela 7 grudnia 2025", "19:00",
                                    "https://bilety.example/kup", status)
            IN  \E v \in post_process(house, <<cand>>, t) :
                    /\ h_args' = [house |-> house, text |-> text, has_buy_link |-> link]
                    /\ h_result' = [status |-> status,
                                    performances |-> v.result.performances]
    /\ h_fn' = "parse_container"
    /\ UNCHANGED notHelp

\* What json.load finds in the state file or the S3 object.  A JSON value
\* is an array, or an object whose members notified_performances and
\* last_check_times are absent or hold the values below.
Absent == [type |-> "absent"]
JsonArray == [type |-> "array", items |-> <<>>]
JsonList(items) == [type |-> "array", items |-> items]
JsonNumber == [type |-> "number"]
JsonTimes(house, text) == [type |-> "object", house |-> house, text |-> text]
JsonObject(notified, times) ==
    [type |-> "object", notified_performances |-> notified, last_check_times |-> times]

NoFile == [kind |-> "missing"]
NotJson == [kind |-> "invalid_json"]
Json(value) == [kind |-> "json", value |-> value]

\* datetime.fromisoformat: the tick of a well-formed timestamp, None for
\* text it rejects with ValueError
fromisoformat(text) ==
    CASE text = "2025-12-06T10:00:00" -> Some(Today)
      [] text = "2025-12-07T10:00:00" -> Some(Tomorrow)
      [] OTHER -> None

StoredDocuments ==
    {NoFile, NotJson, Json(JsonArray)}
    \cup {Json(JsonObject(n, t)) :
            n \in {Absent, JsonNumber, JsonList(<<>>), JsonList(<<unique_id(PerfW)>>)},
            t \in {Absent, JsonArray}
                  \cup {JsonTimes(HouseKrakow, text) :
                            text \in {"2025-12-06T10:00:00", "yesterday"}}}

\* the body of the try block of MonitorState.load after json.load, which is
\* also that of load_state_from_s3: the exception of the first expression
\* that fails, or the state built
state_from_json(data) ==
    IF data.type # "object" THEN Raised("AttributeError")
    ELSE IF data.notified_performances.type = "number" THEN Raised("TypeError")
    ELSE IF data.last_check_times.type = "array" THEN Raised("AttributeError")
    ELSE IF /\ data.last_check_times.type = "object"
            /\ fromisoformat(data.last_check_times.text) = None
         THEN Raised("ValueError")
    ELSE Returned(
            [notified_performances |->
                IF data.notified_performances.type = "absent" THEN {}
                ELSE Range(data.notified_performances.items),
             last_check_times |->
                IF data.last_check_times.type = "absent" THEN <<>>
                ELSE [h \in {data.last_check_times.house} |->
                        fromisoformat(data.last_check_times.text)[1]]])

\* MonitorState.load: "except (FileNotFoundError, json.JSONDecodeError):
\* return cls()"; any other exception leaves load
load_file(doc) ==
    IF doc.kind \in {"missing", "invalid_json"} THEN Returned(EmptyState)
    ELSE state_from_json(doc.value)

\* load_state_from_s3: None without STATE_BUCKET and on every exception
load_s3_object(has_bucket, doc) ==
    IF ~has_bucket \/ doc.kind # "json" THEN None
    ELSE IF state_from_json(doc.value).kind = "raised" THEN None
    ELSE Some(state_from_json(doc.value).result)

\* check_tickets: "await load_state_from_s3() or MonitorState.load(state_file)"
lambda_state(has_bucket, s3_doc, file_doc) ==
    IF load_s3_object(has_bucket, s3_doc) # None
    THEN Returned(load_s3_object(has_bucket, s3_doc)[1])
    ELSE load_file(file_doc)

\* MonitorState.load(filepath)
Help_Load ==
    /\ h_fn = "none"
    /\ \E doc \in StoredDocuments :
        /\ h_args' = [file |-> doc]
        /\ h_result' = load_file(doc)
    /\ h_fn' = "load"
    /\ UNCHANGED notHelp

\* the state check_tickets starts from
Help_LambdaState ==
    /\ h_fn = "none"
    /\ \E has_bucket \in BOOLEAN, s3_doc \in StoredDocuments, doc \in StoredDocuments :
        /\ h_args' = [bucket |-> has_bucket, s3 |-> s3_doc, file |-> doc]
        /\ h_result' = lambda_state(has_bucket, s3_doc, doc)
    /\ h_fn' = "lambda_state"
    /\ UNCHANGED notHelp

\* --- calendar dates <<year, month, day>>

IsLeap(y) == (y % 4 = 0 /\ y % 100 # 0) \/ y % 400 = 0

DaysInMonth(y, m) ==
    CASE m \in {4, 6, 9, 11} -> 30
      [] m = 2 -> (IF IsLeap(y) THEN 29 ELSE 28)
      [] OTHER -> 31

\* datetime(year, month, day) raises ValueError unless the date exists
date_exists(d) ==
    /\ d[2] \in 1..12
    /\ d[3] \in 1..DaysInMonth(d[1], d[2])

RECURSIVE plus_days(_, _)
\* date + timedelta(days=n), n >= 0
plus_days(d, n) ==
    IF d[3] + n <= DaysInMonth(d[1], d[2]) THEN <<d[1], d[2], d[3] + n>>
    ELSE plus_days(IF d[2] = 12 THEN <<d[1] + 1, 1, 1>> ELSE <<d[1], d[2] + 1, 1>>,
                   n - (DaysInMonth(d[1], d[2]) - d[3]) - 1)

\* TeatrWielkiWarszawaScraper.scrape: the list month_urls, a URL
\* kalendarium/data/{year}/{month:02d}/ written <<year, month>>, after the
\* current kalendarium page
month_urls(today) ==
    <<"https://teatrwielki.pl/kalendarium/">>
    \o [i \in 1..MonthPages |->
            LET target_date == plus_days(today, (i - 1) * 30)
            IN  <<target_date[1], target_date[2]>>]

\* the days on which the adapter can run: two years, one of them a leap year
CalendarDays ==
    {d \in (2027..2028) \X (1..12) \X (1..31) : date_exists(d)}

\* the month_urls TeatrWielkiWarszawaScraper.scrape builds on a day
Help_MonthUrls ==
    /\ h_fn = "none"
    /\ \E today \in CalendarDays :
        /\ h_args' = [now |-> today]
        /\ h_result' = month_urls(today)
    /\ h_fn' = "month_urls"
    /\ UNCHANGED notHelp

\* --- a page of candidate containers

\* A container of a repertoire page as the parsers read it: the title, the
\* digits of its date <<year, month, day>> (they need not be a date of the
\* calendar), the time and the wording about tickets.
Container(title, ymd, time, status) ==
    [title |-> title, ymd |-> ymd, time |-> time, status |-> status]

\* the date string formatted from (or found in) a container
date_text(ymd) ==
    CASE ymd = <<2025, 12, 6>> -> "Sobota 6 grudnia 2025"
      [] ymd = <<2025, 12, 7>> -> "Niedziela 7 grudnia 2025"
      [] ymd = <<2026, 2, 30>> -> "30.02.2026"
      [] OTHER -> ""

\* the clock reading of a date: Today is 6 December 2025
ticks_of(ymd) ==
    CASE ymd = <<2025, 12, 5>> -> Yesterday
      [] ymd = <<2025, 12, 6>> -> Today
      [] ymd = <<2025, 12, 7>> -> Tomorrow

\* One pass of a parser's loop over the containers: the Performance built
\* from the container, None when the parser skips it ("continue"), or the
\* exception that leaves the loop.  _parse_kalendarium calls datetime(...)
\* bare; _parse_polish_date and the parsers of Gdansk and Bydgoszcz catch
\* ValueError and go on without a date; the parser of Wroclaw catches it and
\* skips the container.
parse_container(house, c) ==
    IF date_exists(c.ymd)
    THEN Returned(Some(Performance(c.title, house, Some(ticks_of(c.ymd)),
                                   date_text(c.ymd), c.time,
                                   "https://bilety.example/kup", c.status)))
    ELSE CASE get_scraper(house) = "TeatrWielkiWarszawaScraper" ->
                Raised("day is out of range for month")
           [] get_scraper(house) = "OperaWroclawScraper" ->
                Returned(None)
           [] OTHER ->
                Returned(Some(Performance(c.title, house, None,
                                          date_text(c.ymd), c.time,
                                          "https://bilety.example/kup", c.status)))

RECURSIVE parse_containers(_, _, _)
\* the loop over the containers of a page: the candidates built, or the
\* first exception
parse_containers(house, containers, performances) ==
    IF containers = <<>> THEN Returned(performances)
    ELSE LET parsed == parse_container(house, Head(containers))
         IN  IF parsed.kind = "raised" THEN parsed
             ELSE parse_containers(house, Tail(containers),
                        IF parsed.result = None THEN performances
                        ELSE Append(performances, parsed.result[1]))

\* scrape() on a fetched page of containers, as scrape_all_operas reports
\* it: an exception in the parser leaves TeatrWielkiWarszawaScraper.scrape
\* and becomes a failed ScrapeResult
scrape_page(house, containers, t) ==
    LET parsed == parse_containers(house, containers, <<>>)
    IN  IF parsed.kind = "raised"
        THEN {ScrapeResult(house, FALSE, <<>>, parsed.text)}
        ELSE {v.result : v \in post_process(house, parsed.result, t)}

\* the containers tried: two bookable performances and one whose date
\* digits are 30 February
PageContainers ==
    {Container("Halka", <<2025, 12, 7>>, "19:00", AVAILABLE),
     Container("Straszny Dwor", <<2025, 12, 6>>, "18:00", AVAILABLE),
     Container("Halka", <<2026, 2, 30>>, "19:00", AVAILABLE)}

\* scrape() of one venue on one page
Help_ScrapePage ==
    /\ h_fn = "none"
    /\ \E house \in AdapterHouses, t \in CallTimes :
        \E containers \in UNION {[1..k -> PageContainers] : k \in 0..MaxContainers} :
            \E result \in scrape_page(house, containers, t) :
                /\ h_args' = [house |-> house, containers |-> containers, now |-> t]
                /\ h_result' = result
    /\ h_fn' = "scrape_page"
    /\ UNCHANGED notHelp

NextHelp ==
    \/ Help_IsFutureDate
    \/ Help_PostProcess
    \/ Help_DetectAvailability
    \/ Help_IsTargetOpera
    \/ Help_ParseContainer
    \/ Help_Load
    \/ Help_LambdaState
    \/ Help_MonthUrls
    \/ Help_ScrapePage

\* ------------------------------------ seat_checker.py (SpecSeats)

\* A seat identifier (the data-seat or id attribute of a seat element) is
\* modelled by its shape and the digits in it.  The shapes tried:
\*   "R%s-%d"         as in R5-10: matched by the second pattern
\*   "row-%s-seat-%d" matched by the first pattern
\*   "R%sM%d"         matched by the first pattern
\*   "seat%d"         matched by no pattern
SeatId(shape, row, seat) == [shape |-> shape, row |-> row, seat |-> seat]

ParsedShapes == {"R%s-%d", "row-%s-seat-%d", "R%sM%d"}

\* _find_adjacent_seats, "for pattern in patterns": the (row, seat) the first
\* matching pattern extracts, the row as text and the seat as int
parse_seat(id) ==
    IF id.shape \in ParsedShapes THEN Some(<<id.row, id.seat>>) ELSE None

RECURSIVE add_to_row(_, _, _)
\* "if row not in seats_by_row: seats_by_row[row] = []" and
\* "seats_by_row[row].append(seat)" on a dict that keeps insertion order
add_to_row(by_row, row, seat) ==
    IF by_row = <<>> THEN <<[row |-> row, seats |-> <<seat>>]>>
    ELSE IF Head(by_row).row = row
         THEN <<[row |-> row, seats |-> Append(Head(by_row).seats, seat)]>> \o Tail(by_row)
         ELSE <<Head(by_row)>> \o add_to_row(Tail(by_row), row, seat)

RECURSIVE seats_by_row(_, _)
\* the first loop of _find_adjacent_seats
seats_by_row(seat_ids, by_row) ==
    IF seat_ids = <<>> THEN by_row
    ELSE LET parsed == parse_seat(Head(seat_ids))
         IN  IF parsed = None
             THEN seats_by_row(Tail(seat_ids), by_row)
             ELSE seats_by_row(Tail(seat_ids),
                               add_to_row(by_row, parsed[1][1], parsed[1][2]))

RECURSIVE insert_sorted(_, _)
insert_sorted(sorted, x) ==
    IF sorted = <<>> THEN <<x>>
    ELSE IF x <= Head(sorted) THEN <<x>> \o sorted
    ELSE <<Head(sorted)>> \o insert_sorted(Tail(sorted), x)

RECURSIVE sort_seats(_)
\* seats.sort()
sort_seats_left_unsorted(seats) == seats

sort_seats(seats) ==
    IF seats = <<>> THEN <<>>
    ELSE insert_sorted(sort_seats(Tail(seats)), Head(seats))

\* the descriptor f"Rzad {row}, miejsca {a}-{b}"
PairDescriptor(row, a, b) == <<"Rzad", row, "miejsca", a, b>>

RECURSIVE adjacent_in_row(_, _, _)
\* "for i in range(len(seats) - 1): if seats[i + 1] - seats[i] == 1"
adjacent_in_row(row, seats, i) ==
    IF i > Len(seats) - 1 THEN <<>>
    ELSE IF seats[i + 1] - seats[i] = 1
         THEN <<PairDescriptor(row, seats[i], seats[i + 1])>>
              \o adjacent_in_row(row, seats, i + 1)
         ELSE adjacent_in_row(row, seats, i + 1)

\* SeatChecker._find_adjacent_seats
find_adjacent_seats(seat_ids) ==
    LET by_row == seats_by_row(seat_ids, <<>>)
    IN  Flatten([k \in DOMAIN by_row |->
                    adjacent_in_row(by_row[k].row, sort_seats(by_row[k].seats), 1)])

\* the identifiers tried
SeatIds ==
    {SeatId("R%s-%d", "5", 10), SeatId("R%s-%d", "5", 11), SeatId("R%s-%d", "5", 12),
     SeatId("R%s-%d", "5", 13), SeatId("R%s-%d", "8", 3), SeatId("R%s-%d", "8", 4),
     SeatId("row-%s-seat-%d", "5", 11), SeatId("seat%d", "", 12)}

\* R5-10, R5-11, R5-13, R8-3, R8-4
ExampleSeats ==
    <<SeatId("R%s-%d", "5", 10), SeatId("R%s-%d", "5", 11), SeatId("R%s-%d", "5", 13),
      SeatId("R%s-%d", "8", 3), SeatId("R%s-%d", "8", 4)>>

SeatLists ==
    {ExampleSeats} \cup UNION {[1..k -> SeatIds] : k \in 0..MaxSeatIds}

\* the fields of a SeatCheckResult that a check fills in (the performance
\* and the ticket_url are left out)
seat_check_result(has_adjacent, adjacent_count, total, details, error) ==
    [has_adjacent_seats |-> has_adjacent,
     adjacent_seats_count |-> adjacent_count,
     total_available_seats |-> total,
     seat_details |-> details,
     error |-> error]

\* What the browser shows of a ticket page, as the checks observe it:
\*   seats     the data-seat or id attribute of each element matched by the
\*             first seat selector that matches anything (None: no attribute)
\*   hits      the numbers captured by the availability patterns that match
\*             the page, in the order of the pattern list of the path
\*   keyword   the sold-out wording in the page text, "" for none
\*   buy       whether a buy button is found
TicketPage(seats, hits, keyword, buy) ==
    [seats |-> seats, hits |-> hits, keyword |-> keyword, buy |-> buy]

\* page.goto or a query raised
PageRaised == [raised |-> "TimeoutError"]

\* check_teatr_wielki_warszawa, "if seat_id: available_seats.append(seat_id)"
available_seats_of(page) ==
    LET with_id == SelectSeq(page.seats, LAMBDA seat : seat # None)
    IN  [k \in DOMAIN with_id |-> with_id[k][1]]

\* check_teatr_wielki_warszawa: the first captured number that reaches
\* min_adjacent_seats returns; a smaller one lets the loop go on
first_sufficient(hits, min_adjacent) ==
    LET enough == SelectSeq(hits, LAMBDA count : count >= min_adjacent)
    IN  IF enough = <<>> THEN None ELSE Some(Head(enough))

\* the keywords of check_teatr_wielki_warszawa's sold-out test
RenderedSoldOut == {"wyprzedane", "brak biletow", "sold out"}

\* sold_out_keywords of check_generic_opera
GenericSoldOut == {"wyprzedane", "brak biletow", "sold out", "niedostepne"}

\* "adjacent_pairs[:5]"
first_five(pairs) == SubSeq(pairs, 1, IF Len(pairs) < 5 THEN Len(pairs) ELSE 5)

\* SeatChecker.check_teatr_wielki_warszawa after the page is open
check_teatr_wielki_warszawa(page, min_adjacent) ==
    IF page = PageRaised
    THEN seat_check_result(FALSE, 0, 0, <<>>, Some(page.raised))
    ELSE
    LET available_seats == available_seats_of(page)
        enough == first_sufficient(page.hits, min_adjacent)
        adjacent_pairs == find_adjacent_seats(available_seats)
    IN  IF available_seats = <<>> /\ enough # None
        THEN seat_check_result(TRUE, enough[1] \div 2, enough[1],
                             <<<<"~", enough[1], "miejsc dostepnych">>>>, None)
        ELSE IF available_seats = <<>> /\ page.keyword \in RenderedSoldOut
        THEN seat_check_result(FALSE, 0, 0, <<"WYPRZEDANE">>, None)
        ELSE IF available_seats = <<>> /\ page.buy
        THEN seat_check_result(TRUE, 1, -1, <<"Bilety dostepne">>, None)
        ELSE IF available_seats # <<>>
        THEN seat_check_result(Len(adjacent_pairs) > 0, Len(adjacent_pairs),
                             Len(available_seats), first_five(adjacent_pairs), None)
        ELSE seat_check_result(FALSE, 0, 0, <<"Nie udalo sie sprawdzic">>, None)

\* SeatChecker.check_generic_opera; ticket_url is the performance's
check_generic_opera(ticket_url, page, min_adjacent) ==
    IF ticket_url = None
    THEN seat_check_result(FALSE, 0, 0, <<>>, Some("No ticket URL available"))
    ELSE IF page = PageRaised
    THEN seat_check_result(FALSE, 0, 0, <<>>, Some(page.raised))
    ELSE
    LET available_count == IF page.hits = <<>> THEN 0 ELSE Head(page.hits)
        half == available_count \div 2
    IN  IF page.keyword \in GenericSoldOut
        THEN seat_check_result(FALSE, 0, 0, <<"WYPRZEDANE">>, None)
        ELSE IF page.buy \/ available_count >= min_adjacent
        THEN seat_check_result(
                available_count >= min_adjacent \/ page.buy,
                IF available_count # 0 THEN (IF half > 1 THEN half ELSE 1)
                ELSE (IF page.buy THEN 1 ELSE 0),
                IF available_count # 0 THEN available_count ELSE -1,
                IF available_count # 0
                THEN <<<<available_count, "miejsc dostepnych">>>>
                ELSE <<"Bilety prawdopodobnie dostepne">>,
                None)
        ELSE seat_check_result(FALSE, 0, 0, <<"Status nieznany">>, None)

\* the seat elements tried on a page
PageSeatElements ==
    {Some(SeatId("R%s-%d", "5", 10)), Some(SeatId("R%s-%d", "5", 11)),
     Some(SeatId("R%s-%d", "5", 12)), Some(SeatId("seat%d", "", 12)), None}

\* the captured numbers tried
PatternHits == {<<>>, <<0>>, <<1>>, <<2>>, <<5>>, <<1, 5>>}

\* the sold-out wordings tried: none, and the five of SOLD_OUT_KEYWORDS
PageKeywords ==
    {"", "wyprzedane", "sold out", "brak miejsc", "brak biletow", "niedostepne"}

TicketPages ==
    {PageRaised} \cup
    {TicketPage(seats, hits, keyword, buy) :
        seats \in UNION {[1..k -> PageSeatElements] : k \in 0..MaxSeatIds},
        hits \in PatternHits, keyword \in PageKeywords, buy \in BOOLEAN}

\* the thresholds a SeatChecker is constructed with
InitSeat ==
    /\ min_adjacent_seats \in 2..MaxMinAdjacent
    /\ sc_fn = "none"
    /\ sc_input = <<>>
    /\ sc_result = <<>>

\* _find_adjacent_seats(seat_ids)
Seat_FindAdjacentSeats ==
    /\ sc_fn = "none"
    /\ \E seat_ids \in SeatLists :
        /\ sc_input' = seat_ids
        /\ sc_result' = find_adjacent_seats(seat_ids)
    /\ sc_fn' = "find_adjacent_seats"
    /\ UNCHANGED min_adjacent_seats
    /\ UNCHANGED notSeat

\* check_teatr_wielki_warszawa(performance)
Seat_CheckTeatrWielkiWarszawa ==
    /\ sc_fn = "none"
    /\ \E page \in TicketPages :
        /\ sc_input' = [page |-> page]
        /\ sc_result' = check_teatr_wielki_warszawa(page, min_adjacent_seats)
    /\ sc_fn' = "check_teatr_wielki_warszawa"
    /\ UNCHANGED min_adjacent_seats
    /\ UNCHANGED notSeat

\* check_generic_opera(performance)
Seat_CheckGenericOpera ==
    /\ sc_fn = "none"
    /\ \E page \in TicketPages, ticket_url \in {None, Some("url")} :
        /\ ticket_url = None => page = PageRaised
        /\ sc_input' = [page |-> page, ticket_url |-> ticket_url]
        /\ sc_result' = check_generic_opera(ticket_url, page, min_adjacent_seats)
    /\ sc_fn' = "check_generic_opera"
    /\ UNCHANGED min_adjacent_seats
    /\ UNCHANGED notSeat

NextSeat ==
    \/ Seat_FindAdjacentSeats
    \/ Seat_CheckTeatrWielkiWarszawa
    \/ Seat_CheckGenericOpera

\* ---------------------- check_seats_for_performances (SpecBatch)

\* the SeatCheckResult of one performance of the batch
batch_result(p, has_adjacent, error) ==
    [performance |-> p, has_adjacent_seats |-> has_adjacent, error |-> error]

\* str(e) of what the browser raises; an exception can have no message
BrowserErrors == {"Timeout 30000ms exceeded", ""}

\* How check_performance(perf) ends: it returns the result of a check that
\* ran (error None), it returns the result its own "except Exception" built
\* (navigation or a query raised), or it raises: _create_page is called
\* before the try, and page.close() in the finally clause.
CheckOutcomes(p) ==
    {Returned(batch_result(p, adj, None)) : adj \in BOOLEAN}
    \cup {Returned(batch_result(p, FALSE, Some(text))) : text \in BrowserErrors}
    \cup {Raised(text) : text \in BrowserErrors}

\* the body of "for perf in performances": results.append(result), or the
\* result the except clause appends
append_result_in_front(results, p, o) ==
    <<(IF o.kind = "returned" THEN o.result
       ELSE batch_result(p, FALSE, Some(o.text)))>> \o results

append_result(results, p, o) ==
    Append(results, IF o.kind = "returned" THEN o.result
                    ELSE batch_result(p, FALSE, Some(o.text)))

BatchInputs == UNION {[1..n -> {PerfA, PerfW}] : n \in 0..MaxBatch}

InitBatch ==
    /\ b_performances \in BatchInputs
    /\ b_pc = "start"
    /\ b_i = 1
    /\ b_results = <<>>
    /\ b_in_flight = {}
    /\ b_failed = {}
    /\ b_started = <<>>

\* "if not performances: return []", else "async with SeatChecker(...)":
\* __aenter__ starts playwright and launches the browser, which may raise
Batch_Enter ==
    /\ b_pc = "start"
    /\ \/ b_performances = <<>> /\ b_pc' = "returned"
       \/ b_performances # <<>> /\ b_pc' \in {"loop", "raised"}
    /\ UNCHANGED <<b_performances, b_i, b_results, b_in_flight, b_failed, b_started>>
    /\ UNCHANGED notBatch

\* "result = await checker.check_performance(perf)" is entered
Batch_CheckStarts ==
    /\ b_pc = "loop"
    /\ b_pc' = "checking"
    /\ b_in_flight' = b_in_flight \cup {b_i}
    /\ b_started' = Append(b_started, b_i)
    /\ UNCHANGED <<b_performances, b_i, b_results, b_failed>>
    /\ UNCHANGED notBatch

\* check_performance ends; the result is appended (after asyncio.sleep(1)
\* the loop goes on, or the with block is left)
Batch_CheckEnds ==
    /\ b_pc = "checking"
    /\ \E o \in CheckOutcomes(b_performances[b_i]) :
        /\ b_results' = append_result(b_results, b_performances[b_i], o)
        /\ b_failed' = IF o.kind = "raised" \/ o.result.error # None
                       THEN b_failed \cup {b_i} ELSE b_failed
    /\ b_in_flight' = b_in_flight \ {b_i}
    /\ b_i' = b_i + 1
    /\ b_pc' = IF b_i = Len(b_performances) THEN "exit" ELSE "loop"
    /\ UNCHANGED <<b_performances, b_started>>
    /\ UNCHANGED notBatch

\* __aexit__: browser.close() and playwright.stop(), which may raise; then
\* "return results"
Batch_Exit ==
    /\ b_pc = "exit"
    /\ b_pc' \in {"returned", "raised"}
    /\ UNCHANGED <<b_performances, b_i, b_results, b_in_flight, b_failed, b_started>>
    /\ UNCHANGED notBatch

NextBatch ==
    \/ Batch_Enter
    \/ Batch_CheckStarts
    \/ Batch_CheckEnds
    \/ Batch_Exit

\* ------------------------------- run_forever as a loop (SpecLoop)

\* the awaits of check_once in order: scrape_all_operas,
\* check_seats_for_performances, the dispatch and save
next_stage(stage) == IF stage = "scrape" THEN "seats" ELSE "notify"

\* "consecutive_errors = 0" after check_once returned, "consecutive_errors
\* += 1" in the except clause
errors_after_never_reset(failed, errors) == IF failed THEN errors + 1 ELSE errors

errors_after(failed, errors) == IF failed THEN errors + 1 ELSE 0

\* "if consecutive_errors >= 3: self.notifier.send_error_notification(...)"
\* and what that call returns: True when the mail went out, False without
\* credentials and when SMTP failed ("failed"); "none" when it is not called
error_mails(failed, errors) ==
    IF failed /\ errors >= 3 THEN {"sent", "failed"} ELSE {"none"}

\* "for _ in range(sleep_seconds): if not self.running: break": whether
\* another asyncio.sleep(1) is started
sleeps_on_regardless(is_running, left) == left > 0

sleeps_on(is_running, left) == is_running /\ left > 0

\* run_forever is entered: running was set by __init__, the start-up mail
\* (which raises nothing) is out
InitLoop ==
    /\ l_pc = "test"
    /\ l_running = TRUE
    /\ check_count = 0
    /\ consecutive_errors = 0
    /\ l_stage = "none"
    /\ l_wait = 0
    /\ l_last = None
    /\ l_failed_since = 0
    /\ l_stop_count = -1
    /\ l_saves = 0

\* shutdown_handler(signum, frame): "self.running = False", wherever the
\* loop is
Loop_Signal ==
    /\ l_pc \notin {"returned", "raised"}
    /\ l_running
    /\ l_running' = FALSE
    /\ l_stop_count' = check_count
    /\ UNCHANGED <<l_pc, check_count, consecutive_errors, l_stage, l_wait, l_last,
                   l_failed_since, l_saves>>
    /\ UNCHANGED notLoop

\* "while self.running:" is true: "check_count += 1", check_once is called
Loop_StartCycle ==
    /\ l_pc = "test"
    /\ l_running
    /\ check_count < MaxCycles
    /\ check_count' = check_count + 1
    /\ l_pc' = "check"
    /\ l_stage' = "scrape"
    /\ UNCHANGED <<l_running, consecutive_errors, l_wait, l_last, l_failed_since,
                   l_stop_count, l_saves>>
    /\ UNCHANGED notLoop

\* "while self.running:" is false: the loop is left
Loop_Leave ==
    /\ l_pc = "test"
    /\ ~l_running
    /\ l_pc' = "save"
    /\ UNCHANGED <<l_running, check_count, consecutive_errors, l_stage, l_wait,
                   l_last, l_failed_since, l_stop_count, l_saves>>
    /\ UNCHANGED notLoop

\* check_once gets from one await to the next
Loop_CheckGoesOn ==
    /\ l_pc = "check"
    /\ l_stage # "notify"
    /\ l_stage' = next_stage(l_stage)
    /\ UNCHANGED <<l_pc, l_running, check_count, consecutive_errors, l_wait, l_last,
                   l_failed_since, l_stop_count, l_saves>>
    /\ UNCHANGED notLoop

\* check_once returns or raises, at any of its stages; the try statement
\* of the loop sets the counter and may send the error mail
Loop_CheckEnds ==
    /\ l_pc = "check"
    /\ \E failed \in BOOLEAN :
        /\ consecutive_errors' = errors_after(failed, consecutive_errors)
        /\ \E mail \in error_mails(failed, consecutive_errors') :
            l_last' = Some([failed |-> failed, errors |-> consecutive_errors',
                            mail |-> mail])
        /\ l_failed_since' = IF failed THEN l_failed_since + 1 ELSE 0
    /\ l_pc' = "after_check"
    /\ l_stage' = "none"
    /\ UNCHANGED <<l_running, check_count, l_wait, l_stop_count, l_saves>>
    /\ UNCHANGED notLoop

\* "if self.running:" after the try statement: the wait starts, or not
Loop_AfterCheck ==
    /\ l_pc = "after_check"
    /\ IF l_running
       THEN l_pc' = "wait" /\ l_wait' = MaxWaitPolls
       ELSE l_pc' = "test" /\ l_wait' = l_wait
    /\ UNCHANGED <<l_running, check_count, consecutive_errors, l_stage, l_last,
                   l_failed_since, l_stop_count, l_saves>>
    /\ UNCHANGED notLoop

\* one iteration of the wait: "await asyncio.sleep(1)"
Loop_WaitSleeps ==
    /\ l_pc = "wait"
    /\ sleeps_on(l_running, l_wait)
    /\ l_wait' = l_wait - 1
    /\ UNCHANGED <<l_pc, l_running, check_count, consecutive_errors, l_stage, l_last,
                   l_failed_since, l_stop_count, l_saves>>
    /\ UNCHANGED notLoop

\* the wait is over: the range is exhausted or "break"
Loop_WaitEnds ==
    /\ l_pc = "wait"
    /\ ~sleeps_on(l_running, l_wait)
    /\ l_pc' = "test"
    /\ l_wait' = 0
    /\ UNCHANGED <<l_running, check_count, consecutive_errors, l_stage, l_last,
                   l_failed_since, l_stop_count, l_saves>>
    /\ UNCHANGED notLoop

\* "self.state.save(self.config.state_file)" after the loop: run_forever
\* returns, or the exception of the save leaves it
Loop_FinalSave ==
    /\ l_pc = "save"
    /\ l_saves' = l_saves + 1
    /\ l_pc' \in {"returned", "raised"}
    /\ UNCHANGED <<l_running, check_count, consecutive_errors, l_stage, l_wait,
                   l_last, l_failed_since, l_stop_count>>
    /\ UNCHANGED notLoop

\* everything but the signal: the steps the event loop takes by itself
LoopProgress ==
    \/ Loop_StartCycle
    \/ Loop_Leave
    \/ Loop_CheckGoesOn
    \/ Loop_CheckEnds
    \/ Loop_AfterCheck
    \/ Loop_WaitSleeps
    \/ Loop_WaitEnds
    \/ Loop_FinalSave

NextLoop ==
    \/ Loop_Signal
    \/ Loop_StartCycle
    \/ Loop_Leave
    \/ Loop_CheckGoesOn
    \/ Loop_CheckEnds
    \/ Loop_AfterCheck
    \/ Loop_WaitSleeps
    \/ Loop_WaitEnds
    \/ Loop_FinalSave

\* ------------------------------------------------------- specifications

\* the variables of the specifications that are not running
CycleParked ==
    /\ entry = "none"
    /\ check_seats = FALSE
    /\ bucket = FALSE
    /\ pc = "parked"
    /\ running = FALSE
    /\ cycle = 0
    /\ state = EmptyState
    /\ file = Missing
    /\ s3 = Missing
    /\ all_performances = <<>>
    /\ seat_results = <<>>
    /\ new_results = <<>>
    /\ new_performances = <<>>
    /\ outcome = "none"
    /\ send_result = "none"
    /\ notified_pre = {}
    /\ sent = <<>>

StateParked ==
    /\ st_notified = {}
    /\ st_marked = {}
    /\ st_probe = None
    /\ st_answer = FALSE

FetchParked ==
    /\ max_retries = 0
    /\ f_pc = "parked"
    /\ f_attempt = 0
    /\ f_log = <<>>
    /\ f_sleeps = 0
    /\ f_slept_last = FALSE
    /\ f_result = None

ScrapeParked ==
    /\ opera_houses = <<>>
    /\ now = 0
    /\ calendar_listing = <<>>
    /\ s_pc = "parked"
    /\ t_pc = <<>>
    /\ t_page = <<>>
    /\ t_performances = <<>>
    /\ t_value = <<>>
    /\ t_none = <<>>
    /\ calendar_seen = {}
    /\ completed = <<>>
    /\ processed_results = <<>>

HelpParked ==
    /\ h_fn = "parked"
    /\ h_args = <<>>
    /\ h_result = <<>>

SeatParked ==
    /\ min_adjacent_seats = 0
    /\ sc_fn = "parked"
    /\ sc_input = <<>>
    /\ sc_result = <<>>

BatchParked ==
    /\ b_performances = <<>>
    /\ b_pc = "parked"
    /\ b_i = 0
    /\ b_results = <<>>
    /\ b_in_flight = {}
    /\ b_failed = {}
    /\ b_started = <<>>

LoopParked ==
    /\ l_pc = "parked"
    /\ l_running = FALSE
    /\ check_count = 0
    /\ consecutive_errors = 0
    /\ l_stage = "parked"
    /\ l_wait = 0
    /\ l_last = <<>>
    /\ l_failed_since = 0
    /\ l_stop_count = -1
    /\ l_saves = 0

\* the parts of the program a specification leaves unconstructed: all but
\* the one it runs
Parked(running_part) ==
    /\ running_part = "cycle" \/ CycleParked
    /\ running_part = "state" \/ StateParked
    /\ running_part = "fetch" \/ FetchParked
    /\ running_part = "scrape" \/ ScrapeParked
    /\ running_part = "helpers" \/ HelpParked
    /\ running_part = "seats" \/ SeatParked
    /\ running_part = "batch" \/ BatchParked
    /\ running_part = "loop" \/ LoopParked

Init == InitCycle /\ Parked("cycle")

Next == NextCycle

Spec == Init /\ [][Next]_vars

InitSpecState == InitState /\ Parked("state")

SpecState == InitSpecState /\ [][NextState]_vars

InitSpecFetch == InitFetch /\ Parked("fetch")

InitSpecScrape == InitScrape /\ Parked("scrape")

SpecScrape == InitSpecScrape /\ [][NextScrape]_vars

InitSpecHelpers == InitHelp /\ Parked("helpers")

SpecHelpers == InitSpecHelpers /\ [][NextHelp]_vars

InitSpecSeats == InitSeat /\ Parked("seats")

SpecSeats == InitSpecSeats /\ [][NextSeat]_vars

InitSpecBatch == InitBatch /\ Parked("batch")

SpecBatch == InitSpecBatch /\ [][NextBatch]_vars

InitSpecLoop == InitLoop /\ Parked("loop")

SpecLoop == InitSpecLoop /\ [][NextLoop]_vars

\* check_once ends (its fetches have timeouts and bounded retries) and
\* asyncio.sleep(1) returns: the loop is never stuck in a step
SpecLoopFair == SpecLoop /\ WF_vars(LoopProgress)

\* Every await of fetch_page ends: the request by its total timeout, the
\* sleep after retry_delay_seconds; the event loop then resumes the
\* coroutine, hence weak fairness of its steps.
SpecFetch ==
    InitSpecFetch /\ [][NextFetch]_vars /\ WF_vars(NextFetch)

\* ------------------------------------------------- claims on the cycle

\* the batch handed to the notifier in the cycle, as performances
batch == IF entry = "monitor" THEN performances_of(new_results)
                              ELSE new_performances

\* whether the seat check of the cycle returned has_adjacent_seats for p
seat_check_passed(p) ==
    \E i \in DOMAIN seat_results :
        /\ seat_results[i].performance = p
        /\ seat_results[i].has_adjacent_seats

\* C1: over the check cycles of one running monitor every performance
\* identity is in at most one batch whose dispatch succeeded.
C1_AtMostOnce ==
    entry = "monitor" => \A id \in Identities : sent[id] <= 1

\* C1 witness: in the third cycle a performance dispatched earlier has
\* adjacent seats again and the cycle ends without dispatching it.
C1_Witness ==
    /\ entry = "monitor"
    /\ cycle = 3
    /\ pc = "idle"
    /\ outcome = "returned"
    /\ send_result = "none"
    /\ \E i \in DOMAIN seat_results :
        /\ seat_results[i].has_adjacent_seats
        /\ unique_id(seat_results[i].performance) \in notified_pre
        /\ sent[Identity(seat_results[i].performance)] = 1

\* C2: when the notifier returns failure for a batch, the notified set after
\* the cycle is the notified set before the cycle (monitor and Lambda).
C2_FailureMarksNothing ==
    (pc = "idle" /\ send_result = "failed")
        => state.notified_performances = notified_pre

\* C2 witness: a cycle ended after the notifier failed on a non-empty batch.
C2_Witness ==
    /\ pc = "idle"
    /\ send_result = "failed"
    /\ batch # <<>>
    /\ \A i \in DOMAIN batch : unique_id(batch[i]) \notin state.notified_performances

\* C3 (as claimed, for both entry points): a performance is in a dispatched
\* batch, and marked afterwards, only if in the same cycle it was not in the
\* notified set and its seat check returned has_adjacent_seats = true.
C3_OnlyNewWithSeats ==
    (pc = "idle" /\ send_result # "none") =>
        /\ \A i \in DOMAIN batch :
            /\ unique_id(batch[i]) \notin notified_pre
            /\ seat_check_passed(batch[i])
        /\ \A k \in state.notified_performances \ notified_pre :
            \E i \in DOMAIN batch :
                /\ unique_id(batch[i]) = k
                /\ seat_check_passed(batch[i])

\* C4: no step removes an identity from the notified set of a MonitorState
\* (the Lambda's first step builds a new MonitorState from storage).
C4_NotifiedOnlyGrows ==
    [][\/ entry = "lambda" /\ pc = "idle"
       \/ state.notified_performances \subseteq state'.notified_performances]_vars

\* C4 witness: a second identity was added to a set that already held one.
C4_Witness ==
    /\ send_result = "ok"
    /\ pc = "idle"
    /\ notified_pre # {}
    /\ notified_pre \subseteq state.notified_performances
    /\ notified_pre # state.notified_performances

\* ---------------------------------------------- claims on MonitorState

\* the identities passed to mark_notified so far
marked_identities == {Identity(p) : p \in st_marked}

\* C5: should_notify(p) is true iff the identity tuple of p (venue, title,
\* raw date string, raw time string) was not marked, whatever the status,
\* ticket URL and parsed date of p are.
C5_ShouldNotifyIffNew ==
    /\ \A p \in PerfPool :
          should_notify(p, st_notified) <=> Identity(p) \notin marked_identities
    /\ st_probe # None =>
          (st_answer <=> Identity(st_probe[1]) \notin marked_identities)

\* C5 witness: should_notify returned false for a record that was never
\* marked itself but shares its identity with a marked record of another
\* status, ticket URL and parsed date, while a record that differs from the
\* marked ones only in its time is still to be notified.
C5_Witness ==
    /\ st_probe # None
    /\ ~st_answer
    /\ st_probe[1] \notin st_marked
    /\ \E q \in st_marked :
        /\ Identity(q) = Identity(st_probe[1])
        /\ q.status # st_probe[1].status
        /\ q.ticket_url # st_probe[1].ticket_url
        /\ q.date # st_probe[1].date
    /\ PerfC \in st_marked
    /\ should_notify(PerfB, st_notified)

\* ------------------------------------------------- claims on fetch_page

\* the request got status 200
got_200(o) == o.kind \in {"ok", "body_error"}

\* the requests issued so far
f_requests == Len(f_log)

\* fetch_page issues at most max_retries requests; it sleeps only between
\* two attempts; once it has returned, the result is None iff all
\* max_retries requests were issued and none returned a body.
C7_Common ==
    /\ f_requests <= max_retries
    /\ f_sleeps <= f_requests
    /\ (f_pc = "done" => ~f_slept_last)
    /\ (f_pc = "done" /\ f_requests > 0 => f_sleeps = f_requests - 1)
    /\ (f_pc = "done" =>
          (f_result = None <=>
              /\ f_requests = max_retries
              /\ \A i \in DOMAIN f_log : ~returns_body(f_log[i])))

\* C7 (as claimed): fetch_page issues at most max_retries requests, each
\* failure using one; it returns the body at the first 200 response without
\* a further request; it sleeps only between two attempts; it returns None
\* iff every one of the max_retries requests failed.
C7_Original ==
    /\ C7_Common
    /\ \A i \in DOMAIN f_log :
          got_200(f_log[i]) =>
              /\ i = Len(f_log)
              /\ f_pc = "done"
              /\ f_result = Some(f_log[i].body)

\* C7 (amended): as C7, with "the first 200 response whose body is read":
\* a 200 response whose body cannot be read uses up an attempt like any
\* other failure; and fetch_page always terminates.
C7_Amended ==
    /\ [](/\ C7_Common
          /\ \A i \in DOMAIN f_log :
                returns_body(f_log[i]) =>
                    /\ i = Len(f_log)
                    /\ f_pc = "done"
                    /\ f_result = Some(f_log[i].body))
    /\ <>(f_pc = "done")

\* C7 witness: fetch_page returned a body at the third of three attempts,
\* after a 200 response whose body could not be read and a timeout, having
\* slept twice.
C7_Witness ==
    /\ f_pc = "done"
    /\ max_retries = 3
    /\ f_requests = 3
    /\ f_log[1].kind = "body_error"
    /\ f_log[2].kind = "timeout"
    /\ f_result = Some("<html>")
    /\ f_sleeps = 2

\* ---------------------------------------------------------------- C6

enabled_count == Cardinality({k \in DOMAIN opera_houses : opera_houses[k].enabled})

\* C6: whatever the catalog, the adapters' outcomes and the order in which the
\* concurrently running adapters complete, scrape_all_operas returns exactly
\* one ScrapeResult per enabled venue, each attributed to its own venue; an
\* adapter that raised is represented by a failed result with a non-empty
\* error text, and the other results are exactly what the adapters returned.
C6_OneResultPerVenue ==
    s_pc = "done" =>
        /\ Len(processed_results) = enabled_count
        /\ \A i \in Tasks :
            /\ processed_results[i].opera_house = scrapers[i]
            /\ t_value[i].kind = "raised" =>
                /\ ~processed_results[i].success
                /\ processed_results[i].error_message # ""
            /\ t_value[i].kind = "returned" =>
                processed_results[i] = t_value[i].result

\* ---------------------------------------------------------------- C8

is_calendar_task(i) == get_scraper(scrapers[i]) = "TeatrWielkiWarszawaScraper"

failed_with_text(r) == ~r.success /\ r.error_message # "" /\ r.performances = <<>>

\* the cycle continues: the call returns one result per task, and task i's is r
cycle_continues_with(i, r) ==
    s_pc = "done" =>
        /\ Len(processed_results) = Len(scrapers)
        /\ processed_results[i] = r

\* C8 as stated: for every adapter, generic or venue-specific, a fetch that
\* returned none makes the venue's ScrapeResult a failed one with an error
\* text, and the cycle continues with the other venues.
C8_Original ==
    \A i \in Tasks :
        (t_none[i] > 0 /\ t_pc[i] = "returned") =>
            /\ failed_with_text(t_value[i].result)
            /\ cycle_continues_with(i, t_value[i].result)

\* C8, amended: for every adapter that fetches one page (the generic one and
\* those of Wroclaw, Gdansk and Bydgoszcz) a fetch that returned none makes
\* the venue's ScrapeResult a failed one with an error text; the Teatr Wielki
\* adapter skips the pages whose fetch returned none and still returns
\* success = true; in both cases the cycle continues with the other venues.
C8_Amended ==
    \A i \in Tasks :
        (t_none[i] > 0 /\ t_pc[i] = "returned") =>
            /\ IF is_calendar_task(i)
               THEN t_value[i].result.success /\ t_value[i].result.error_message = ""
               ELSE failed_with_text(t_value[i].result)
            /\ t_value[i].result.opera_house = scrapers[i]
            /\ cycle_continues_with(i, t_value[i].result)

\* a single-page venue's fetch returned none, and the call still returned
\* another venue's performances
C8_Witness ==
    /\ s_pc = "done"
    /\ \E i, j \in Tasks :
        /\ ~is_calendar_task(i)
        /\ t_none[i] = 1
        /\ ~processed_results[i].success
        /\ j # i
        /\ processed_results[j].success
        /\ processed_results[j].performances # <<>>

\* ---------------------------------------------------------------- C9

valid_seen == {c \in calendar_seen : is_future_date(c.date, now) /\ is_available(c.status)}

\* C9: TeatrWielkiWarszawaScraper.scrape tolerates page fetches that fail: the
\* page is skipped, it returns success = true with the valid performances
\* parsed from the pages that were fetched, and with no performances when
\* every page failed; a failed fetch never makes it raise.
C9_TolerantCalendar ==
    \A i \in Tasks :
        is_calendar_task(i) =>
            /\ t_pc[i] = "returned" =>
                /\ t_value[i].result.success
                /\ Range(t_value[i].result.performances) = valid_seen
                /\ t_none[i] = CalendarPageCount =>
                    t_value[i].result.performances = <<>>
            /\ (t_none[i] = t_page[i] /\ t_page[i] = CalendarPageCount) =>
                t_pc[i] # "raised"

\* some pages failed, others were fetched, and their performance is returned
C9_Witness ==
    \E i \in Tasks :
        /\ is_calendar_task(i)
        /\ t_pc[i] = "returned"
        /\ t_none[i] > 0
        /\ t_none[i] < CalendarPageCount
        /\ t_value[i].result.performances # <<>>

\* ---------------------------------------------------------------- C10

day_of(t) == t \div TicksPerDay

known_today_or_later_and_bookable(p) ==
    /\ p.date # None
    /\ day_of(p.date[1]) >= day_of(now)
    /\ p.status \in {AVAILABLE, LIMITED}

\* C10: every performance in every ScrapeResult an adapter returns, and in
\* every result scrape_all_operas hands back, has a known date that is today
\* or later and a status of available or limited.
C10_OnlyFutureAvailable ==
    /\ \A i \in Tasks :
        t_pc[i] = "returned" =>
            \A k \in DOMAIN t_value[i].result.performances :
                known_today_or_later_and_bookable(t_value[i].result.performances[k])
    /\ \A i \in DOMAIN processed_results :
        \A k \in DOMAIN processed_results[i].performances :
            known_today_or_later_and_bookable(processed_results[i].performances[k])

\* the calendar listed a sold-out performance that was dropped, while another
\* venue's page held candidates of which one was returned
C10_Witness ==
    /\ s_pc = "done"
    /\ \E c \in calendar_seen : c.status = SOLD_OUT
    /\ \E i, j \in Tasks :
        /\ is_calendar_task(i)
        /\ processed_results[i].success
        /\ processed_results[i].performances = <<>>
        /\ j # i
        /\ processed_results[j].performances # <<>>

\* ---------------------------------------------------------------- C11

\* the default lookahead window in months, and the days a month is taken for
DefaultMonthsAhead == 8
DaysPerMonth == 30

\* C11: the lookahead test is true exactly when the date is not none, falls
\* on today (at any time of day) or later, and is no more than
\* max_months_ahead months after today; stated for the default window of 8
\* months, the only one is_future_date can be called with.
C11_WithinLookahead ==
    h_fn = "is_future_date" =>
        h_result =
            (/\ h_args.dt # None
             /\ day_of(h_args.dt[1]) >= day_of(h_args.now)
             /\ day_of(h_args.dt[1]) <= day_of(h_args.now) + DefaultMonthsAhead * DaysPerMonth)

\* ---------------------------------------------------------------- C12

\* the reference pipeline: the positions of the candidates that pass the
\* filter and are the first of their identity among those that pass
passes_filter(p, t) == is_future_date(p.date, t) /\ is_available(p.status)

reference_positions(cands, t) ==
    {i \in DOMAIN cands :
        /\ passes_filter(cands[i], t)
        /\ \A j \in 1..(i - 1) :
            passes_filter(cands[j], t) => Identity(cands[j]) # Identity(cands[i])}

RECURSIVE reference_list(_, _, _)
\* the candidates at those positions, in input order, from position k on
reference_list(cands, t, k) ==
    IF k > Len(cands) THEN <<>>
    ELSE IF k \in reference_positions(cands, t)
         THEN <<cands[k]>> \o reference_list(cands, t, k + 1)
         ELSE reference_list(cands, t, k + 1)

\* C12: deduplication in every adapter keeps, for each identity among the
\* filtered performances, exactly one record, the first occurrence, and the
\* survivors appear in the same relative order as in the input list.
C12_FirstOccurrenceOrderStable ==
    h_fn = "post_process" =>
        h_result = reference_list(h_args.candidates, h_args.now, 1)

\* ---------------------------------------------------------------- C13

\* C13: for every list of raw candidates, each adapter returns the same set
\* of performances as the reference pipeline "filter by future date and
\* availability, then deduplicate by identity"; the generic adapter, which
\* deduplicates before filtering, included.
C13_SameSetAsReference ==
    h_fn = "post_process" =>
        Range(h_result) = Range(reference_list(h_args.candidates, h_args.now, 1))

\* ---------------------------------------------------------------- C14

\* the text contains the keyword as a case-insensitive substring
mentions(keyword, text) ==
    \E i \in 0..(Len(text) - Len(keyword)) :
        \A j \in 1..Len(keyword) : lower_char(text[i + j]) = lower_char(keyword[j])

mentions_any(keywords, text) == \E k \in DOMAIN keywords : mentions(keywords[k], text)

\* C14: for every text with both a sold-out keyword and an availability
\* keyword _detect_availability returns sold_out; it returns available only
\* when an availability keyword is present and no sold-out keyword is,
\* unknown when neither is present, and never limited.
C14_SoldOutPrecedence ==
    h_fn = "detect_availability" =>
        LET sold == mentions_any(SOLD_OUT_KEYWORDS, h_args.text)
            avail == mentions_any(AVAILABILITY_KEYWORDS, h_args.text)
        IN  /\ (sold /\ avail) => h_result = SOLD_OUT
            /\ h_result = AVAILABLE => (avail /\ ~sold)
            /\ (~sold /\ ~avail) => h_result = UNKNOWN
            /\ h_result # LIMITED

\* a text with a buy keyword and a sold-out keyword was classified sold_out
C14_Witness ==
    /\ h_fn = "detect_availability"
    /\ mentions(<<"k", "u", "p", " ", "b", "i", "l", "e", "t">>, h_args.text)
    /\ mentions(<<"w", "y", "p", "r", "z", "e", "d", "a", "n", "e">>, h_args.text)
    /\ h_result = SOLD_OUT

\* ---------------------------------------------------------------- C15

\* C15: in every adapter a container whose text holds any keyword of the
\* sold-out list (wyprzedane, brak biletow, sold out, niedostepne, brak
\* miejsc) is classified sold_out and does not appear in the venue's result,
\* whatever buy link or availability keyword it also holds.
C15_SoldOutNeverReturned ==
    (h_fn = "parse_container" /\ mentions_any(SOLD_OUT_KEYWORDS, h_args.text)) =>
        /\ h_result.status = SOLD_OUT
        /\ h_result.performances = <<>>

\* ---------------------------------------------------------------- C16

StrasznyDworTargets == {TARGET_OPERAS[k] : k \in 1..3}
HalkaTargets == {TARGET_OPERAS[k] : k \in 4..6}

\* C16: _is_target_opera returns a canonical title iff the text contains
\* some target name as a case-insensitive substring, and the title is that
\* of a family that matched: "Straszny Dwor" only when a Straszny Dwor
\* target matched, "Halka" when only a Halka target matched.
C16_TitleOfMatchedFamily ==
    h_fn = "is_target_opera" =>
        LET straszny == \E x \in StrasznyDworTargets : mentions(x, h_args.text)
            halka == \E x \in HalkaTargets : mentions(x, h_args.text)
        IN  /\ h_result # None <=> (straszny \/ halka)
            /\ h_result = Some("Straszny Dwor") => straszny
            /\ (halka /\ ~straszny) => h_result = Some("Halka")

\* ---------------------------------------------------------------- C17

\* the (row, seat) positions parsed from a list of identifiers
parsed_positions(seat_ids) ==
    {parse_seat(seat_ids[k])[1] : k \in {j \in DOMAIN seat_ids : parse_seat(seat_ids[j]) # None}}

\* one descriptor for every row r and number n with n and n + 1 both parsed
expected_pairs(seat_ids) ==
    {PairDescriptor(pos[1], pos[2], pos[2] + 1) :
        pos \in {q \in parsed_positions(seat_ids) :
                    <<q[1], q[2] + 1>> \in parsed_positions(seat_ids)}}

\* C17: _find_adjacent_seats emits exactly one pair descriptor (row r, seats
\* n and n + 1) for every row r and number n such that n and n + 1 are both
\* among the parsed available seats of row r, and no other descriptor;
\* identifiers that do not parse are dropped.
C17_ExactlyTheAdjacentPairs ==
    sc_fn = "find_adjacent_seats" =>
        /\ Range(sc_result) = expected_pairs(sc_input)
        /\ Len(sc_result) = Cardinality(expected_pairs(sc_input))

\* R5-10, R5-11, R5-13, R8-3, R8-4 gave row 5 seats 10-11 and row 8 seats 3-4
C17_Witness ==
    /\ sc_fn = "find_adjacent_seats"
    /\ sc_input = ExampleSeats
    /\ sc_result = <<PairDescriptor("5", 10, 11), PairDescriptor("8", 3, 4)>>

\* ---------------------------------------------------------------- C18

\* some row has n parsed seats with consecutive numbers
has_run(seat_ids, n) ==
    \E pos \in parsed_positions(seat_ids) :
        \A d \in 0..(n - 1) : <<pos[1], pos[2] + d>> \in parsed_positions(seat_ids)

\* the rendering path decided from the seat elements of the page
decided_from_positions ==
    /\ sc_fn = "check_teatr_wielki_warszawa"
    /\ sc_input.page # PageRaised
    /\ available_seats_of(sc_input.page) # <<>>

\* C18: when the seat checker decides from individual seat positions with
\* threshold min_adjacent = N (N >= 2), has_adjacent_seats is true only if
\* some row has at least N available seats with consecutive seat numbers.
C18_RunOfThresholdLength ==
    (decided_from_positions /\ sc_result.has_adjacent_seats) =>
        has_run(available_seats_of(sc_input.page), min_adjacent_seats)

\* ---------------------------------------------------------------- C19

\* one of the two seat-check paths looked at a page
checked_a_page ==
    /\ sc_fn \in {"check_teatr_wielki_warszawa", "check_generic_opera"}
    /\ sc_input.page # PageRaised

\* C19: in both seat-check paths, if the page contains an explicit sold-out
\* keyword the result has has_adjacent_seats = false, whatever seat
\* elements, numeric availability counts or buy controls are also there.
C19_SoldOutForcesNegative ==
    (checked_a_page /\ sc_input.page.keyword # "") =>
        ~sc_result.has_adjacent_seats

\* ---------------------------------------------------------------- C20

\* the result carries a total taken from a numeric availability pattern
total_from_pattern ==
    /\ checked_a_page
    /\ sc_fn = "check_teatr_wielki_warszawa" => available_seats_of(sc_input.page) = <<>>
    /\ sc_result.total_available_seats > 0

\* C20: when a result carries a known total c obtained from a numeric
\* availability pattern (no seat positions), has_adjacent_seats is true only
\* if c >= min_adjacent, and adjacent_seats_count equals floor(c / 2), in
\* both paths and also when a buy control is present.
C20_CountFallback ==
    total_from_pattern =>
        /\ sc_result.has_adjacent_seats =>
                sc_result.total_available_seats >= min_adjacent_seats
        /\ sc_result.adjacent_seats_count = sc_result.total_available_seats \div 2

\* ---------------------------------------------------------------- C21

\* C21: check_seats_for_performances never propagates an exception and
\* returns exactly one SeatCheckResult per input performance, whatever fails
\* (browser start-up, page creation, navigation or an individual check);
\* every failing check is represented by a result with has_adjacent_seats
\* false and a non-empty error, and the remaining performances are checked.
C21_BatchNeverAborts ==
    /\ b_pc # "raised"
    /\ b_pc = "returned" =>
        /\ Len(b_results) = Len(b_performances)
        /\ b_started = [k \in DOMAIN b_performances |-> k]
        /\ \A k \in b_failed :
            /\ ~b_results[k].has_adjacent_seats
            /\ b_results[k].error \notin {None, Some("")}

\* ---------------------------------------------------------------- C22

\* C22: seat checks are processed strictly one at a time: at most one check
\* is in flight in any state, the check of the (i+1)-th performance starts
\* only after the i-th has finished (its result is recorded), and the i-th
\* result belongs to the i-th input performance.
C22_OneAtATimeInOrder ==
    b_pc # "parked" =>
        /\ Cardinality(b_in_flight) <= 1
        /\ \A k \in b_in_flight : Len(b_results) = k - 1
        /\ b_started = [k \in DOMAIN b_started |-> k]
        /\ \A k \in DOMAIN b_results :
            b_results[k].performance = b_performances[k]

\* a batch of two different performances was returned
C22_Witness ==
    /\ b_pc = "returned"
    /\ Len(b_results) >= 2
    /\ b_performances[1] # b_performances[2]

\* ---------------------------------------------------------------- C23

\* the stored data is a saved state: a JSON object whose members, where
\* present, are a list of identities and a map of well-formed timestamps
well_formed(doc) ==
    /\ doc.kind = "json"
    /\ doc.value.type = "object"
    /\ doc.value.notified_performances.type \in {"absent", "array"}
    /\ \/ doc.value.last_check_times.type = "absent"
       \/ /\ doc.value.last_check_times.type = "object"
          /\ fromisoformat(doc.value.last_check_times.text) # None

\* C23: MonitorState.load raises nothing and returns an empty state (no
\* notified identities, no timestamps) whenever the stored data is missing
\* or corrupt, for every kind of corruption: invalid JSON, well-formed JSON
\* of the wrong shape, and an unparseable timestamp value.
C23_LoadNeverRaises ==
    /\ (h_fn = "load" /\ ~well_formed(h_args.file)) =>
            h_result = Returned(EmptyState)
    /\ (h_fn = "lambda_state" /\ ~well_formed(h_args.file)
            /\ load_s3_object(h_args.bucket, h_args.s3) = None) =>
            h_result = Returned(EmptyState)

\* ---------------------------------------------------------------- C24

\* a cycle ended without an exception after a successful dispatch
cycle_reported_success ==
    /\ pc = "idle"
    /\ outcome = "returned"
    /\ send_result = "ok"

\* the identities notified in the cycle that ended last
newly_notified == state.notified_performances \ notified_pre

\* the store the next cycle reads the notified identities from: the S3
\* object when STATE_BUCKET is set, else the state file
persisted_store == IF entry = "lambda" /\ bucket THEN s3 ELSE file

\* C24: a failure to persist the state after a successful notification is
\* surfaced as a failure of that cycle and never swallowed, in check_once
\* and in check_tickets including its save to S3; so no cycle reports
\* success while the newly notified identities are missing from the
\* persisted state.
C24_SaveFailureSurfaced ==
    cycle_reported_success =>
        /\ newly_notified \subseteq file.notified_performances
        /\ newly_notified \subseteq persisted_store.notified_performances

\* ---------------------------------------------------------------- C25

\* C25: at the end of every check cycle of the monitor, including cycles
\* that found no performance, found nothing new, or whose dispatch failed,
\* the state (with the last-check timestamps updated in that cycle) has
\* been written to persistent storage.
C25_SavedEveryCycle ==
    (entry = "monitor" /\ pc = "idle" /\ cycle > 0 /\ outcome = "returned") =>
        file = save(state)

\* ---------------------------------------------------------------- C28

\* check_tickets: the dict it returns, total and new
summary ==
    [total |-> Len(all_performances), new |-> Len(new_performances)]

\* lambda_handler: the body of the 200 response
response_body ==
    [performances_found |-> summary.total, new_notifications |-> summary.new]

\* C28: the summary of the Lambda path reports as new_notifications the
\* number of performances actually notified in that cycle (dispatch
\* succeeded and identities marked), and as performances_found the total
\* number of performances in the successful scrape results; when the
\* dispatch fails the newly-notified count is 0.
C28_SummaryCountsNotified ==
    (entry = "lambda" /\ pc = "idle" /\ outcome = "returned") =>
        /\ response_body.performances_found = Len(all_performances)
        /\ response_body.new_notifications =
                IF send_result = "ok" THEN Len(new_performances) ELSE 0

\* ---------------------------------------------------------------- C29

\* the calendar month k months after the month of a date
month_after(d, k) ==
    <<d[1] + ((d[2] - 1 + k) \div 12), ((d[2] - 1 + k) % 12) + 1>>

\* C29: for every current date, the per-month calendar URLs built by
\* TeatrWielkiWarszawaScraper.scrape name the current calendar month and
\* each of the next six calendar months, each exactly once (seven distinct
\* consecutive months, none skipped, the year rolling over after December).
C29_SevenConsecutiveMonths ==
    h_fn = "month_urls" =>
        Tail(h_result) = [i \in 1..7 |-> month_after(h_args.now, i - 1)]

\* ---------------------------------------------------------------- C26

\* the containers of the page whose processing raises nothing and whose
\* performance passes the filter of scrape()
sound_containers(house, containers, t) ==
    {k \in DOMAIN containers :
        /\ parse_container(house, containers[k]).kind = "returned"
        /\ parse_container(house, containers[k]).result # None
        /\ passes_filter(parse_container(house, containers[k]).result[1], t)}

\* C26: in every adapter, an exception raised while processing one
\* candidate container (e.g. an impossible date in that container) does not
\* stop the processing of the remaining containers of the page: the venue's
\* ScrapeResult still contains the performances of the other containers.
C26_ContainerFailureIsolated ==
    h_fn = "scrape_page" =>
        \A k \in sound_containers(h_args.house, h_args.containers, h_args.now) :
            \E r \in Range(h_result.performances) :
                Identity(r) = Identity(parse_container(h_args.house,
                                            h_args.containers[k]).result[1])

\* ---------------------------------------------------------------- C27

\* run_forever has ended
loop_ended == l_pc \in {"returned", "raised"}

\* after the signal no cycle is started, the signal itself leaves a cycle
\* in progress where it is, no further asyncio.sleep(1) of the wait is
\* started, state.save is called at most once, and a cycle in progress ends
after_signal ==
    /\ [](l_stop_count # -1 => check_count = l_stop_count)
    /\ [][(l_running /\ ~l_running') => (l_pc' = l_pc /\ l_stage' = l_stage)]_vars
    /\ [][(l_pc' = "wait" /\ l_wait' < l_wait) => l_running]_vars
    /\ [](l_saves <= 1 /\ (loop_ended => l_saves = 1))
    /\ (l_pc = "check" ~> l_pc = "after_check")

\* C27 as stated: once a shutdown signal has set running to false,
\* run_forever starts no new check cycle; a cycle in progress is not
\* cancelled but runs to completion, the inter-cycle wait is left within
\* one polling step, and run_forever then saves the state exactly once and
\* returns.
C27_Original ==
    /\ after_signal
    /\ (~l_running /\ l_pc # "parked") ~> (l_pc = "returned" /\ l_saves = 1)

\* C27 amended: as above, but run_forever then calls state.save exactly
\* once and ends: it returns when the save succeeded, and the exception of
\* a failing save leaves it.
C27_Amended ==
    /\ after_signal
    /\ (~l_running /\ l_pc # "parked") ~> (loop_ended /\ l_saves = 1)

\* the signal arrived after the first cycle had started, that cycle was
\* finished, and the final save raised
C27_Witness ==
    /\ l_pc = "raised"
    /\ l_stop_count = 1
    /\ l_last # None
    /\ l_saves = 1

\* ---------------------------------------------------------------- C30

\* the loop is left only after a shutdown signal, never by the exception
\* of a cycle, and the counter is the number of failed cycles since the
\* last successful one
loop_survives_and_counts ==
    /\ l_pc \in {"save", "returned", "raised"} => ~l_running
    /\ l_pc # "parked" => consecutive_errors = l_failed_since
    /\ l_last # None => l_last[1].errors = (IF l_last[1].failed THEN consecutive_errors ELSE 0)

\* C30 as stated: in run_forever an exception escaping check_once never
\* ends the loop; the consecutive-error counter equals the number of failed
\* cycles since the last successful one, and an error notification is sent
\* in a cycle iff that cycle failed and the counter is then at least 3.
C30_Original ==
    /\ loop_survives_and_counts
    /\ l_last # None =>
        (l_last[1].mail = "sent" <=> (l_last[1].failed /\ l_last[1].errors >= 3))

\* C30 amended: as above, but send_error_notification is called in a cycle
\* iff that cycle failed and the counter is then at least 3; the mail goes
\* out only when the sender credentials are configured and SMTP accepts it.
C30_Amended ==
    /\ loop_survives_and_counts
    /\ l_last # None =>
        (l_last[1].mail # "none" <=> (l_last[1].failed /\ l_last[1].errors >= 3))

\* the third failed cycle in a row, reported by mail, and the loop goes on
C30_Witness ==
    /\ l_last = Some([failed |-> TRUE, errors |-> 3, mail |-> "sent"])
    /\ l_pc = "wait"
    /\ l_running

====
